---- MODULE Spec2Model ----
(***************************************************************************)
(* Paint catalogue scrapers (Green Stuff World, Kimera, Turbodork,         *)
(* Scale75): name normalisation, validation, deduplication and catalogue   *)
(* assembly, modelled from the four scraper scripts.                       *)
(*                                                                         *)
(* A Python str is a sequence of one-character strings, so that prefix     *)
(* tests, regular expressions, case conversion and substring tests are     *)
(* computed character by character as the scripts compute them.            *)
(***************************************************************************)
EXTENDS Integers, Sequences, FiniteSets, TLC

VARIABLES
    pc,                   \* position of GSW scrape_range
    range_key,            \* scrape_range argument
    sample_colors,        \* scrape_range argument
    max_workers,          \* scrape_range argument
    all_products,         \* products collected by the page loop
    next_task,            \* index of the next product a worker picks up
    running,              \* indices of the products being processed
    paints,               \* entries collected, then sorted by name
    deduplicated_paints,  \* entries after the dedup pass
    duplicates_removed,   \* counter of the dedup pass
    valid_paints,         \* the catalog scrape_range returns
    rejected,             \* names of validation_issues (critical rejects)
    npc,                  \* position of the normalisation harness
    which,                \* normaliser under test: "gsw" or "kimera"
    title,                \* raw title given to the normaliser
    ntokens,              \* number of tokens the title was assembled from
    name1,                \* normalize(title)
    name2,                \* normalize(normalize(title))
    vpc,                  \* position of the vendor catalogue run
    vendor,               \* "kimera", "turbodork" or "scale75"
    raw,                  \* raw product records of the vendor run
    catalog,              \* entries the vendor run emits
    fn,                   \* name of the function called on its own, "" if none
    arg,                  \* the arguments of that call
    out,                  \* <<result>> once the call has returned
    mpc,                  \* position of GSW main
    main_range,           \* args.range of main
    files,                \* the output files on disk, by name
    fetched,              \* whether scrape_range has called fetch_page
    site,                 \* the category pages of the shop, by page URL
    current_url,          \* the page loop's current_url
    fetch_log             \* the URLs given to fetch_page, in order

vars == <<pc, range_key, sample_colors, max_workers, all_products, next_task, running,
          paints, deduplicated_paints, duplicates_removed, valid_paints,
          rejected, npc, which, title, ntokens, name1, name2, vpc, vendor, raw,
          catalog, fn, arg, out, mpc, main_range, files, fetched,
          site, current_url, fetch_log>>

gswVars == <<pc, range_key, sample_colors, max_workers, all_products, next_task, running,
             paints, deduplicated_paints, duplicates_removed, valid_paints,
             rejected>>
normVars == <<npc, which, title, ntokens, name1, name2>>
vendorVars == <<vpc, vendor, raw, catalog>>
callVars == <<fn, arg, out>>
mainVars == <<mpc, main_range, files, fetched>>
walkVars == <<site, current_url, fetch_log>>

(***************************************************************************)
(* Bounds of the model.                                                    *)
(***************************************************************************)
MaxProducts == 3      \* products collected in one GSW batch
MaxTokens == 3        \* tokens a raw title is assembled from
MaxRecords == 2       \* raw records of one vendor run

(***************************************************************************)
(* Python text primitives.                                                 *)
(***************************************************************************)
Str(s) == [i \in 1..Len(s) |-> SubSeq(s, i, i)]

\* Python None: a value different from every str
None == <<"None">>

\* truthiness of an optional str: None and "" are falsy
Truthy(v) == v # None /\ v # <<>>

\* x or ""
OrEmpty(x) == IF Truthy(x) THEN x ELSE <<>>

\* printable ASCII in code-point order: 32 (space) to 95 (_), then 97 (a) to
\* 126 (~); the grave accent (96) is not part of the modelled alphabet
PrintableLow ==
    Str(" !\"#$%&'()*+,-./0123456789:;<=>?@ABCDEFGHIJKLMNOPQRSTUVWXYZ[\\]^_")
PrintableHigh ==
    Str("abcdefghijklmnopqrstuvwxyz{|}~")

CharSet == {PrintableLow[i] : i \in 1..Len(PrintableLow)}
               \cup {PrintableHigh[i] : i \in 1..Len(PrintableHigh)}

\* chr(n)
ChrOf(n) == IF n <= 95 THEN PrintableLow[n - 31] ELSE PrintableHigh[n - 96]

\* ord(c)
OrdOf == [c \in CharSet |-> CHOOSE n \in (32..95) \cup (97..126) : ChrOf(n) = c]

UpperSet == {c \in CharSet : OrdOf[c] >= 65 /\ OrdOf[c] <= 90}
LowerSet == {c \in CharSet : OrdOf[c] >= 97 /\ OrdOf[c] <= 122}
DigitSet == {c \in CharSet : OrdOf[c] >= 48 /\ OrdOf[c] <= 57}
LetterSet == UpperSet \cup LowerSet

LowerOf == [c \in CharSet |-> IF c \in UpperSet THEN ChrOf(OrdOf[c] + 32) ELSE c]
UpperOf == [c \in CharSet |-> IF c \in LowerSet THEN ChrOf(OrdOf[c] - 32) ELSE c]

\* the only whitespace of the modelled alphabet is the space
IsSpace(c) == c = " "

\* str.lower()
lower(s) == [i \in 1..Len(s) |-> LowerOf[s[i]]]

\* str.upper()
upper(s) == [i \in 1..Len(s) |-> UpperOf[s[i]]]

\* s[i:] with a 1-based first index
From(s, i) == SubSeq(s, i, Len(s))

\* str.startswith(p)
startswith(s, p) == Len(p) <= Len(s) /\ SubSeq(s, 1, Len(p)) = p

\* str.endswith(p)
endswith(s, p) == Len(p) <= Len(s) /\ SubSeq(s, Len(s) - Len(p) + 1, Len(s)) = p

\* `sub in s`
contains(s, sub) ==
    \E i \in 1..(Len(s) - Len(sub) + 1) : SubSeq(s, i, i + Len(sub) - 1) = sub

\* number of leading characters of s that lie in the class cls
RECURSIVE Span(_, _)
Span(s, cls) ==
    IF s # <<>> /\ Head(s) \in cls THEN 1 + Span(Tail(s), cls) ELSE 0

\* number of trailing characters of s that lie in the class cls
RECURSIVE SpanEnd(_, _)
SpanEnd(s, cls) ==
    IF s # <<>> /\ s[Len(s)] \in cls THEN 1 + SpanEnd(SubSeq(s, 1, Len(s) - 1), cls) ELSE 0

\* str.strip()
strip(s) ==
    LET a == Span(s, {" "})
        t == From(s, a + 1)
    IN  SubSeq(t, 1, Len(t) - SpanEnd(t, {" "}))

\* str.isupper(): at least one cased character and no lower-case one
isupper(s) ==
    /\ \E i \in 1..Len(s) : s[i] \in UpperSet
    /\ \A i \in 1..Len(s) : s[i] \notin LowerSet

\* str.title(): a letter that follows a letter is lowered, any other letter
\* is capitalised
titlecase(s) ==
    [i \in 1..Len(s) |->
        IF i > 1 /\ s[i - 1] \in LetterSet THEN LowerOf[s[i]] ELSE UpperOf[s[i]]]

\* a < b for str: lexicographic by code point
RECURSIVE StrLess(_, _)
StrLess(a, b) ==
    IF b = <<>> THEN FALSE
    ELSE IF a = <<>> THEN TRUE
    ELSE IF Head(a) = Head(b) THEN StrLess(Tail(a), Tail(b))
    ELSE OrdOf[Head(a)] < OrdOf[Head(b)]

(***************************************************************************)
(* Green Stuff World: tables.                                              *)
(***************************************************************************)
\* GSW_RANGES: range_key -> name, range, type
GSW_RANGES ==
    [acrylic     |-> [name |-> Str("Acrylic Paints"), range |-> Str("Acrylic Paints"), type |-> Str("opaque")],
     military    |-> [name |-> Str("Military Paints"), range |-> Str("Military Paints"), type |-> Str("opaque")],
     metallic    |-> [name |-> Str("Metallic Paints"), range |-> Str("Metallic Paints"), type |-> Str("metallic")],
     chameleon   |-> [name |-> Str("Chameleon Paints"), range |-> Str("Chameleon Paints"), type |-> Str("metallic")],
     chrome      |-> [name |-> Str("Chrome Paints"), range |-> Str("Chrome Paints"), type |-> Str("metallic")],
     fluor       |-> [name |-> Str("Fluorescent Paints"), range |-> Str("Fluorescent Paints"), type |-> Str("fluorescent")],
     dipping_ink |-> [name |-> Str("Dipping Inks"), range |-> Str("Dipping Inks"), type |-> Str("contrast")],
     acrylic_ink |-> [name |-> Str("Acrylic Inks"), range |-> Str("Acrylic Inks"), type |-> Str("ink")],
     dry_brush   |-> [name |-> Str("Dry Brush Paints"), range |-> Str("Dry Brush Paints"), type |-> Str("opaque")],
     opaque      |-> [name |-> Str("Opaque Colors"), range |-> Str("Opaque Colors"), type |-> Str("opaque")],
     effect      |-> [name |-> Str("Effect Paints"), range |-> Str("Effect Paints"), type |-> Str("technical")],
     crackle     |-> [name |-> Str("Crackle Paint"), range |-> Str("Crackle Paint"), type |-> Str("technical")],
     airbrush    |-> [name |-> Str("Airbrush Paint"), range |-> Str("Airbrush Paint"), type |-> Str("air")]]

\* TYPE_PATTERNS, in the insertion order of the dict
TYPE_PATTERNS ==
    << <<Str("metallic"), <<Str("metallic"), Str("metal"), Str("chrome"), Str("gold"),
                            Str("silver"), Str("copper"), Str("bronze")>> >>,
       <<Str("wash"), <<Str("wash"), Str("shade")>> >>,
       <<Str("contrast"), <<Str("dipping ink"), Str("contrast")>> >>,
       <<Str("ink"), <<Str("ink"), Str("tinta")>> >>,
       <<Str("fluorescent"), <<Str("fluor"), Str("fluorescent"), Str("neon"), Str("uv reactive")>> >>,
       <<Str("transparent"), <<Str("candy"), Str("transparent"), Str("clear")>> >>,
       <<Str("primer"), <<Str("primer"), Str("surface primer")>> >>,
       <<Str("varnish"), <<Str("varnish"), Str("barniz")>> >>,
       <<Str("technical"), <<Str("effect"), Str("crackle"), Str("texture"), Str("blood"),
                             Str("slime"), Str("rust")>> >> >>

\* prefixes_to_remove of normalize_paint_name, in list order
prefixes_to_remove ==
    << Str("Acrylic Color "),
       Str("Acrylic Ink Opaque- "),
       Str("Acrylic Ink Opaque - "),
       Str("Transparent Acrylic Ink - "),
       Str("Metallic Dry Brush - "),
       Str("Metallic Paint "),
       Str("Chameleon Paint "),
       Str("Chrome Paint - "),
       Str("Fluor Acrylic Ink - "),
       Str("Fluor Paint "),
       Str("Dipping ink 60 ml - "),
       Str("Dipping ink 17 ml - "),
       Str("Candy Ink "),
       Str("Intensity Ink "),
       Str("Wash Ink "),
       Str("Opaque Colors - "),
       Str("Dry Brush - "),
       Str("Crackle Paint - "),
       Str("Metal Filters - "),
       Str("Liquid Pigments "),
       Str("Blood effect - "),
       Str("Acrylic white paint ") >>

\* valid_types of validate_paint
valid_types ==
    { Str("opaque"), Str("metallic"), Str("wash"), Str("contrast"), Str("ink"),
      Str("fluorescent"), Str("transparent"), Str("primer"), Str("varnish"),
      Str("technical"), Str("air") }

(***************************************************************************)
(* Green Stuff World: validators.                                          *)
(***************************************************************************)
HexDigitSet == DigitSet \cup {"A", "B", "C", "D", "E", "F", "a", "b", "c", "d", "e", "f"}

\* re.match(r'^#[0-9A-Fa-f]{6}$', hex_color)
is_valid_hex(hex_color) ==
    /\ Truthy(hex_color)
    /\ Len(hex_color) = 7
    /\ hex_color[1] = "#"
    /\ \A i \in 2..7 : hex_color[i] \in HexDigitSet

\* re.match(r'^\d{13}[A-Z]{0,2}$', sku)
is_valid_sku(sku) ==
    /\ Truthy(sku)
    /\ Len(sku) >= 13 /\ Len(sku) <= 15
    /\ \A i \in 1..13 : sku[i] \in DigitSet
    /\ \A i \in 14..Len(sku) : sku[i] \in UpperSet

is_valid_name(name) ==
    /\ Truthy(name)
    /\ Len(name) >= 3
    /\ \E i \in 1..Len(name) : name[i] \in LetterSet

is_valid_url(url) ==
    /\ Truthy(url)
    /\ startswith(url, Str("https://www.greenstuffworld.com/"))
    /\ contains(url, Str(".html"))

\* one issue of validate_paint: the text the code appends, tagged with the
\* issue's name in the validator's taxonomy
Issue(tag, text) == [tag |-> tag, text |-> text]

\* f"<label>: '<value>'"
Quoted(label, value) == Str(label) \o Str(": '") \o value \o Str("'")

\* validate_paint: the issues of an entry, in the order the code appends them
validate_paint(paint) ==
    (IF ~Truthy(paint.id) THEN <<Issue("MissingId", Str("Missing ID"))>> ELSE <<>>)
    \o (IF ~is_valid_name(paint.name)
        THEN <<Issue("InvalidName", Quoted("Invalid name", paint.name))>> ELSE <<>>)
    \o (IF ~is_valid_url(paint.url)
        THEN <<Issue("InvalidUrl", Quoted("Invalid URL", paint.url))>> ELSE <<>>)
    \o (IF ~is_valid_sku(paint.sku)
        THEN <<Issue("InvalidSku", Quoted("Invalid SKU", paint.sku))>> ELSE <<>>)
    \o (IF Truthy(paint.hex) /\ ~is_valid_hex(paint.hex)
        THEN <<Issue("InvalidHex", Quoted("Invalid hex", paint.hex))>> ELSE <<>>)
    \o (IF paint.type \notin valid_types
        THEN <<Issue("InvalidType", Quoted("Invalid type", paint.type))>> ELSE <<>>)

\* the issue tags of an entry
IssueTags(paint) ==
    LET issues == validate_paint(paint)
    IN  {issues[i].tag : i \in 1..Len(issues)}

\* the filter with `and` in place of `or`
MutIsCriticalAll(text) ==
    /\ contains(lower(text), Str("name"))
    /\ contains(lower(text), Str("id"))
    /\ contains(lower(text), Str("url"))

\* the filter looking for the words name, id and url on their own
MutIsCriticalWords(text) ==
    \/ contains(lower(text), Str(" name"))
    \/ contains(lower(text), Str(" id"))
    \/ contains(lower(text), Str(" url"))

\* 'name' in i.lower() or 'id' in i.lower() or 'url' in i.lower()
IsCritical(text) ==
    \/ contains(lower(text), Str("name"))
    \/ contains(lower(text), Str("id"))
    \/ contains(lower(text), Str("url"))

\* critical_issues = [i for i in issues if ...]
critical_issues(paint) ==
    SelectSeq(validate_paint(paint), LAMBDA i : IsCritical(i.text))

(***************************************************************************)
(* Green Stuff World: name, type and brand data.                           *)
(***************************************************************************)
\* the prefix loop comparing without regard to case
RECURSIVE MutRemoveFirstPrefixAnyCase(_, _)
MutRemoveFirstPrefixAnyCase(name, prefixes) ==
    IF prefixes = <<>> THEN name
    ELSE IF startswith(lower(name), lower(Head(prefixes)))
         THEN From(name, Len(Head(prefixes)) + 1)
    ELSE MutRemoveFirstPrefixAnyCase(name, Tail(prefixes))

\* the loop over prefixes_to_remove: the first prefix the name starts with
\* is removed, and the loop breaks
RECURSIVE RemoveFirstPrefix(_, _)
RemoveFirstPrefix(name, prefixes) ==
    IF prefixes = <<>> THEN name
    ELSE IF startswith(name, Head(prefixes)) THEN From(name, Len(Head(prefixes)) + 1)
    ELSE RemoveFirstPrefix(name, Tail(prefixes))

\* whether the whole of t matches \s*\d+\s*ml\s* (re.IGNORECASE)
MatchesVolume(t) ==
    LET a == From(t, Span(t, {" "}) + 1)
        n == Span(a, DigitSet)
        b == From(a, n + 1)
        c == From(b, Span(b, {" "}) + 1)
    IN  /\ n >= 1
        /\ Len(c) >= 2
        /\ LowerOf[c[1]] = "m"
        /\ LowerOf[c[2]] = "l"
        /\ \A k \in 3..Len(c) : c[k] = " "

\* re.sub(r'\s*\d+\s*ml\s*$', '', name, flags=re.IGNORECASE): the leftmost
\* match that reaches the end of the string is removed
RemoveVolume(name) ==
    LET starts == {i \in 1..Len(name) : MatchesVolume(From(name, i))}
    IN  IF starts = {} THEN name
        ELSE SubSeq(name, 1, (CHOOSE i \in starts : \A j \in starts : i <= j) - 1)

\* the normaliser re-casing before it removes the volume suffix
MutNormalizeCaseFirst(raw_name) ==
    LET stripped == strip(raw_name)
        unprefixed == RemoveFirstPrefix(stripped, prefixes_to_remove)
        cased == IF isupper(unprefixed) THEN titlecase(unprefixed) ELSE unprefixed
    IN  strip(RemoveVolume(cased))

normalize_paint_name(raw_name) ==
    LET stripped == strip(raw_name)
        unprefixed == RemoveFirstPrefix(stripped, prefixes_to_remove)
        sized == RemoveVolume(unprefixed)
        cased == IF isupper(sized) THEN titlecase(sized) ELSE sized
    IN  strip(cased)

\* the inner loop of get_paint_type over one type's keywords
AnyKeywordIn(keywords, text) ==
    \E k \in 1..Len(keywords) : contains(text, keywords[k])

\* get_paint_type returning the type of the last pattern that matches
MutGetPaintTypeLastPattern(name, default_type) ==
    LET hits == {k \in 1..Len(TYPE_PATTERNS) : AnyKeywordIn(TYPE_PATTERNS[k][2], lower(name))}
    IN  IF hits = {} THEN default_type
        ELSE TYPE_PATTERNS[CHOOSE k \in hits : \A j \in hits : k >= j][1]

RECURSIVE FirstPattern(_, _, _)
FirstPattern(patterns, name_lower, default_type) ==
    IF patterns = <<>> THEN default_type
    ELSE IF AnyKeywordIn(Head(patterns)[2], name_lower) THEN Head(patterns)[1]
    ELSE FirstPattern(Tail(patterns), name_lower, default_type)

\* get_paint_type returning the keyword it found instead of the type
MutGetPaintTypeKeyword(name, default_type) ==
    LET hits == {k \in 1..Len(TYPE_PATTERNS) : AnyKeywordIn(TYPE_PATTERNS[k][2], lower(name))}
    IN  IF hits = {} THEN default_type
        ELSE TYPE_PATTERNS[CHOOSE k \in hits : \A j \in hits : k <= j][2][1]

get_paint_type(name, default_type) ==
    FirstPattern(TYPE_PATTERNS, lower(name), default_type)

EXCLUDE_KEYWORDS ==
    {"bundle", " set", "case", "collection", "kit", "pack", "combo",
     "palette", "tool", "cup", "handle", "mixing ball",
     "display", "rack", "holder", "organizer",
     "texture paste", "putty", "sculpt",
     "empty pot", "empty dropper", "empty bottle",
     "stir stick", "mixing stick",
     "paint brush", "synthetic brush", "kolinsky"}

INCLUDE_OVERRIDES == {"dry brush paint", "dry brush -", "crackle paint"}

\* is_paint_product with the exclusion keywords looked at first
MutIsPaintProductExcludeFirst(product) ==
    /\ \A keyword \in EXCLUDE_KEYWORDS :
           /\ ~contains(lower(OrEmpty(product.title)), Str(keyword))
           /\ ~contains(lower(OrEmpty(product.url)), Str(keyword))

is_paint_product(product) ==
    LET title_lower == lower(OrEmpty(product.title))
        url_lower == lower(OrEmpty(product.url))
    IN  IF \E override \in INCLUDE_OVERRIDES : contains(title_lower, Str(override))
        THEN TRUE
        ELSE ~\E keyword \in EXCLUDE_KEYWORDS :
                 \/ contains(title_lower, Str(keyword))
                 \/ contains(url_lower, Str(keyword))

\* a brandData mapping holds only the keys that were set
NoBrandData == [k \in {} |-> TRUE]

\* get_brand_data writing every flag, fired or not
MutGetBrandDataFlags(name, rkey) ==
    [colorShift |-> rkey = "chameleon" \/ contains(lower(name), Str("chameleon")),
     uvReactive |-> rkey = "fluor" \/ contains(lower(name), Str("fluor")),
     transparent |-> contains(lower(name), Str("candy")),
     glowInDark |-> contains(lower(name), Str("glow"))]

get_brand_data(name, rkey) ==
    LET name_lower == lower(name)
    IN  (IF rkey = "chameleon" \/ contains(name_lower, Str("chameleon"))
            \/ contains(name_lower, Str("colorshift"))
         THEN [colorShift |-> TRUE] ELSE NoBrandData)
        @@ (IF rkey = "fluor" \/ contains(name_lower, Str("fluor"))
               \/ contains(name_lower, Str("uv")) \/ contains(name_lower, Str("neon"))
            THEN [uvReactive |-> TRUE] ELSE NoBrandData)
        @@ (IF contains(name_lower, Str("candy")) \/ contains(name_lower, Str("transparent"))
            THEN [transparent |-> TRUE] ELSE NoBrandData)
        @@ (IF contains(name_lower, Str("glow"))
            THEN [glowInDark |-> TRUE] ELSE NoBrandData)

(***************************************************************************)
(* Kimera: normalize_name.                                                 *)
(***************************************************************************)
\* whether the whole of t matches \s*-\s*Series\s*\d+\s* (re.IGNORECASE)
MatchesSeries(t) ==
    LET a == From(t, Span(t, {" "}) + 1)
        b == IF a # <<>> /\ Head(a) = "-" THEN From(a, 2 + Span(Tail(a), {" "})) ELSE <<>>
        c == IF Len(b) >= 6 /\ lower(SubSeq(b, 1, 6)) = Str("series")
             THEN From(b, 7 + Span(From(b, 7), {" "})) ELSE <<>>
        n == Span(c, DigitSet)
    IN  /\ a # <<>> /\ Head(a) = "-"
        /\ Len(b) >= 6 /\ lower(SubSeq(b, 1, 6)) = Str("series")
        /\ n >= 1
        /\ \A k \in (n + 1)..Len(c) : c[k] = " "

\* re.sub(r'\s*-\s*Series\s*\d+\s*$', '', title, flags=re.IGNORECASE).strip()
normalize_name(raw_title) ==
    LET starts == {i \in 1..Len(raw_title) : MatchesSeries(From(raw_title, i))}
    IN  strip(IF starts = {} THEN raw_title
              ELSE SubSeq(raw_title, 1, (CHOOSE i \in starts : \A j \in starts : i <= j) - 1))

(***************************************************************************)
(* Green Stuff World: colour sampling.                                     *)
(*                                                                         *)
(* An image is the record of what one download yields: url (the img_url,   *)
(* None when the page had no image), fetch ("ok", or "fail" when the       *)
(* request or the decoding raises), regions (the averaged colour           *)
(* <<r, g, b>> of the neighbourhood of each point of sample_regions, in    *)
(* list order), size (<<width, height>>), pixel (the colour of the pixels   *)
(* that are read one by one, by position <<x, y>>), and for the second     *)
(* download of sample_secondary_color fetch2 and secondary (the averaged   *)
(* colours of its four regions).                                           *)
(***************************************************************************)
Max3(c) == IF c[1] >= c[2] /\ c[1] >= c[3] THEN c[1] ELSE IF c[2] >= c[3] THEN c[2] ELSE c[3]
Min3(c) == IF c[1] <= c[2] /\ c[1] <= c[3] THEN c[1] ELSE IF c[2] <= c[3] THEN c[2] ELSE c[3]
Sum3(c) == c[1] + c[2] + c[3]
Abs(n) == IF n < 0 THEN 0 - n ELSE n

\* brightness > 240 or brightness < 15, with brightness = (r + g + b) / 3
Rejected(c) == Sum3(c) > 720 \/ Sum3(c) < 45

\* score - 0.1 = saturation * (1 - brightness_penalty * 0.3) as the exact
\* fraction ScoreNum / (1270 * ScoreDen):
\*   saturation = (max_c - min_c) / max(max_c, 1)
\*   brightness_penalty * 0.3 = |r + g + b - 381| / 1270
\* the numerator with a brightness penalty weighted 3.0 instead of 0.3
MutScoreNumHeavyPenalty(c) == (Max3(c) - Min3(c)) * (1270 - 10 * Abs(Sum3(c) - 381))

ScoreNum(c) == (Max3(c) - Min3(c)) * (1270 - Abs(Sum3(c) - 381))
ScoreDen(c) == IF Max3(c) > 1 THEN Max3(c) ELSE 1

\* score(a) > score(b)
ScoreGreater(a, b) == ScoreNum(a) * ScoreDen(b) > ScoreNum(b) * ScoreDen(a)

\* the loop over sample_regions taking a point whose score is not lower
RECURSIVE MutBestColorLaterOnTie(_, _)
MutBestColorLaterOnTie(regions, best) ==
    IF regions = <<>> THEN best
    ELSE LET c == Head(regions)
         IN  IF Rejected(c) THEN MutBestColorLaterOnTie(Tail(regions), best)
             ELSE IF best = None \/ ~ScoreGreater(best, c)
                  THEN MutBestColorLaterOnTie(Tail(regions), c)
             ELSE MutBestColorLaterOnTie(Tail(regions), best)

\* the loop over sample_regions keeping the last accepted colour
RECURSIVE MutBestColorLastAccepted(_, _)
MutBestColorLastAccepted(regions, best) ==
    IF regions = <<>> THEN best
    ELSE IF Rejected(Head(regions)) THEN MutBestColorLastAccepted(Tail(regions), best)
    ELSE MutBestColorLastAccepted(Tail(regions), Head(regions))

\* the loop over sample_regions: best is the best_color so far (None while
\* none was accepted, with best_score = -1)
RECURSIVE BestColor(_, _)
BestColor(regions, best) ==
    IF regions = <<>> THEN best
    ELSE LET c == Head(regions)
         IN  IF Rejected(c) THEN BestColor(Tail(regions), best)
             ELSE IF best = None \/ ScoreGreater(c, best) THEN BestColor(Tail(regions), c)
             ELSE BestColor(Tail(regions), best)

HexDigits == Str("0123456789ABCDEF")

\* "{:02X}".format(n)
HexByte(n) == <<HexDigits[(n \div 16) + 1], HexDigits[(n % 16) + 1]>>

\* "#{:02X}{:02X}{:02X}".format(r, g, b)
FormatHex(c) == <<"#">> \o HexByte(c[1]) \o HexByte(c[2]) \o HexByte(c[3])

\* int(s, 16) of one hexadecimal digit
HexValue(d) == (CHOOSE k \in 1..16 : HexDigits[k] = upper(<<d>>)[1]) - 1

\* the three channels int(hex[i:i+2], 16) for i in (1, 3, 5)
ParseHex(hex) ==
    << HexValue(hex[2]) * 16 + HexValue(hex[3]),
       HexValue(hex[4]) * 16 + HexValue(hex[5]),
       HexValue(hex[6]) * 16 + HexValue(hex[7]) >>

\* img.getpixel((x, y))
getpixel(img, xy) == img.pixel[xy]

\* (int(width * 0.5), int(height * 0.5))
CenterPoint(size) == <<size[1] \div 2, size[2] \div 2>>

sample_color_from_image(img) ==
    IF ~Truthy(img.url) THEN None
    ELSE IF img.fetch # "ok" THEN None
    ELSE LET best_color == BestColor(img.regions, None)
         IN  IF best_color # None THEN FormatHex(best_color)
             ELSE FormatHex(getpixel(img, CenterPoint(img.size)))

\* sample_secondary_color without the brightness band
MutSecondaryNoBand(img) ==
    IF ~Truthy(img.url) THEN None
    ELSE IF img.fetch2 # "ok" \/ img.secondary = <<>> THEN None
    ELSE FormatHex(img.secondary[1])

sample_secondary_color(img) ==
    IF ~Truthy(img.url) THEN None
    ELSE IF img.fetch2 # "ok" THEN None
    ELSE IF img.secondary # <<>>
              /\ Sum3(img.secondary[1]) > 60 /\ Sum3(img.secondary[1]) < 705
         THEN FormatHex(img.secondary[1])
         ELSE None

(***************************************************************************)
(* Green Stuff World: process_product.                                     *)
(***************************************************************************)

process_product(product, rkey, do_sample) ==
    LET range_info == GSW_RANGES[rkey]
        name == normalize_paint_name(product.title)
        paint_type == get_paint_type(product.title, range_info.type)
        brand_data == get_brand_data(product.title, rkey)
        sampling == do_sample /\ Truthy(product.img.url)
        hex_color == IF sampling THEN sample_color_from_image(product.img) ELSE None
        secondary_hex ==
            IF sampling /\ "colorShift" \in DOMAIN brand_data /\ Truthy(hex_color)
            THEN sample_secondary_color(product.img) ELSE None
    IN  [ brand |-> Str("Green Stuff World"),
          brandData |->
              IF Truthy(secondary_hex) /\ secondary_hex # hex_color
              THEN brand_data @@ [secondaryHex |-> secondary_hex]
              ELSE brand_data,
          hex |-> OrEmpty(hex_color),
          id |-> Str("gsw-") \o product.id,
          name |-> name,
          range |-> range_info.range,
          sku |-> product.sku,
          type |-> paint_type,
          url |-> product.url ]

(***************************************************************************)
(* Green Stuff World: sort, dedup and validation passes of scrape_range.   *)
(***************************************************************************)
\* an entry going before the entries whose key is equal
RECURSIVE MutInsertByNameBeforeEqual(_, _)
MutInsertByNameBeforeEqual(sorted, paint) ==
    IF sorted = <<>> THEN <<paint>>
    ELSE IF ~StrLess(lower(Head(sorted).name), lower(paint.name))
         THEN <<paint>> \o sorted
         ELSE <<Head(sorted)>> \o MutInsertByNameBeforeEqual(Tail(sorted), paint)

\* list.sort(key=...) is stable: an entry goes after every entry whose key
\* is not greater
RECURSIVE InsertByName(_, _)
InsertByName(sorted, paint) ==
    IF sorted = <<>> THEN <<paint>>
    ELSE IF StrLess(lower(paint.name), lower(Head(sorted).name))
         THEN <<paint>> \o sorted
         ELSE <<Head(sorted)>> \o InsertByName(Tail(sorted), paint)

RECURSIVE SortByName(_)
SortByName(entries) ==
    IF entries = <<>> THEN <<>>
    ELSE InsertByName(SortByName(SubSeq(entries, 1, Len(entries) - 1)),
                      entries[Len(entries)])

\* list.index(x): the first position holding a value equal to x
IndexOf(list, x) == CHOOSE i \in 1..Len(list) : list[i] = x /\ \A j \in 1..(i - 1) : list[j] # x

\* the dedup loop replacing the kept entry whenever the later one has a hex
RECURSIVE MutDedupLoop(_, _)
MutDedupLoop(entries, st) ==
    IF entries = <<>> THEN st
    ELSE LET paint == Head(entries)
             name_key == lower(paint.name)
         IN  IF name_key \in DOMAIN st.seen_names
             THEN LET existing == st.seen_names[name_key]
                  IN  IF Truthy(paint.hex)
                      THEN LET idx == IndexOf(st.deduplicated_paints, existing)
                           IN  MutDedupLoop(Tail(entries),
                                 [ seen_names |-> [st.seen_names EXCEPT ![name_key] = paint],
                                   deduplicated_paints |->
                                       [st.deduplicated_paints EXCEPT ![idx] = paint],
                                   duplicates_removed |-> st.duplicates_removed + 1 ])
                      ELSE MutDedupLoop(Tail(entries),
                                 [st EXCEPT !.duplicates_removed = @ + 1])
             ELSE MutDedupLoop(Tail(entries),
                    [ seen_names |-> st.seen_names @@ (name_key :> paint),
                      deduplicated_paints |-> Append(st.deduplicated_paints, paint),
                      duplicates_removed |-> st.duplicates_removed ])

\* the dedup loop counting a duplicate only when it is skipped, not when it
\* takes the place of the kept entry
RECURSIVE MutDedupLoopMiscount(_, _)
MutDedupLoopMiscount(entries, st) ==
    IF entries = <<>> THEN st
    ELSE LET paint == Head(entries)
             name_key == lower(paint.name)
         IN  IF name_key \in DOMAIN st.seen_names
             THEN LET existing == st.seen_names[name_key]
                  IN  IF ~Truthy(existing.hex) /\ Truthy(paint.hex)
                      THEN LET idx == IndexOf(st.deduplicated_paints, existing)
                           IN  MutDedupLoopMiscount(Tail(entries),
                                 [ seen_names |-> [st.seen_names EXCEPT ![name_key] = paint],
                                   deduplicated_paints |->
                                       [st.deduplicated_paints EXCEPT ![idx] = paint],
                                   duplicates_removed |-> st.duplicates_removed ])
                      ELSE MutDedupLoopMiscount(Tail(entries),
                                 [st EXCEPT !.duplicates_removed = @ + 1])
             ELSE MutDedupLoopMiscount(Tail(entries),
                    [ seen_names |-> st.seen_names @@ (name_key :> paint),
                      deduplicated_paints |-> Append(st.deduplicated_paints, paint),
                      duplicates_removed |-> st.duplicates_removed ])

\* the dedup loop forgetting a name once it has skipped a duplicate of it
RECURSIVE MutDedupLoopForgets(_, _)
MutDedupLoopForgets(entries, st) ==
    IF entries = <<>> THEN st
    ELSE LET paint == Head(entries)
             name_key == lower(paint.name)
             others == DOMAIN st.seen_names \ {name_key}
         IN  IF name_key \in DOMAIN st.seen_names
             THEN MutDedupLoopForgets(Tail(entries),
                    [ seen_names |-> [k \in others |-> st.seen_names[k]],
                      deduplicated_paints |-> st.deduplicated_paints,
                      duplicates_removed |-> st.duplicates_removed + 1 ])
             ELSE MutDedupLoopForgets(Tail(entries),
                    [ seen_names |-> st.seen_names @@ (name_key :> paint),
                      deduplicated_paints |-> Append(st.deduplicated_paints, paint),
                      duplicates_removed |-> st.duplicates_removed ])

\* the dedup loop: st holds seen_names (a function from name keys to
\* entries), deduplicated_paints and duplicates_removed
RECURSIVE DedupLoop(_, _)
DedupLoop(entries, st) ==
    IF entries = <<>> THEN st
    ELSE LET paint == Head(entries)
             name_key == lower(paint.name)
         IN  IF name_key \in DOMAIN st.seen_names
             THEN LET existing == st.seen_names[name_key]
                  IN  IF ~Truthy(existing.hex) /\ Truthy(paint.hex)
                      THEN LET idx == IndexOf(st.deduplicated_paints, existing)
                           IN  DedupLoop(Tail(entries),
                                 [ seen_names |-> [st.seen_names EXCEPT ![name_key] = paint],
                                   deduplicated_paints |->
                                       [st.deduplicated_paints EXCEPT ![idx] = paint],
                                   duplicates_removed |-> st.duplicates_removed + 1 ])
                      ELSE DedupLoop(Tail(entries),
                                 [st EXCEPT !.duplicates_removed = @ + 1])
             ELSE DedupLoop(Tail(entries),
                    [ seen_names |-> st.seen_names @@ (name_key :> paint),
                      deduplicated_paints |-> Append(st.deduplicated_paints, paint),
                      duplicates_removed |-> st.duplicates_removed ])

Deduplicate(entries) ==
    DedupLoop(entries, [ seen_names |-> [k \in {} |-> TRUE],
                         deduplicated_paints |-> <<>>,
                         duplicates_removed |-> 0 ])

\* the validation loop: the entries without critical issues, in order
ValidPaints(entries) == SelectSeq(entries, LAMBDA paint : critical_issues(paint) = <<>>)

\* validation_issues: the entries with critical issues, in order
RejectedPaints(entries) == SelectSeq(entries, LAMBDA paint : critical_issues(paint) # <<>>)

(***************************************************************************)
(* Green Stuff World: the inputs of a run.                                 *)
(***************************************************************************)
White == <<255, 255, 255>>

ImageSize == <<400, 400>>

\* the pixels of an image that are read one by one: the one at the centre
\* and the one at 0.50 of the width and 0.55 of the height
Pixels(at_center, below_center) ==
    (<<200, 200>> :> at_center) @@ (<<200, 220>> :> below_center)

NoImage ==
    [url |-> None, fetch |-> "fail", regions |-> <<>>,
     size |-> ImageSize, pixel |-> Pixels(White, White),
     fetch2 |-> "fail", secondary |-> <<>>]

\* an image whose download or decoding raises
BrokenImage ==
    [url |-> Str("https://www.greenstuffworld.com/a.jpg"), fetch |-> "fail",
     regions |-> <<>>, size |-> ImageSize, pixel |-> Pixels(White, White),
     fetch2 |-> "fail", secondary |-> <<>>]

\* a near-white background with one paint-coloured region
SwatchImage ==
    [url |-> Str("//www.greenstuffworld.com/b.jpg"), fetch |-> "ok",
     regions |-> <<White, <<17, 34, 51>>, White, White, White, White, White, White>>,
     size |-> ImageSize, pixel |-> Pixels(<<17, 34, 51>>, <<17, 34, 51>>),
     fetch2 |-> "ok", secondary |-> <<<<68, 85, 102>>, White, White, White>>]

\* every region is background: the centre pixel is used
BlankImage ==
    [url |-> Str("https://www.greenstuffworld.com/c.jpg"), fetch |-> "ok",
     regions |-> <<White, White, White, White, White, White, White, White>>,
     size |-> ImageSize, pixel |-> Pixels(<<250, 251, 252>>, <<250, 251, 252>>),
     fetch2 |-> "fail", secondary |-> <<>>]

GoodSku == Str("8436574502466ES")
GoodUrl == Str("https://www.greenstuffworld.com/en/paint.html")

\* the products a category page can list: id, title, sku, url, img
ProductPool ==
    { [id |-> Str("101"), title |-> Str("Dipping ink 17 ml - Zombie Dip"),
       sku |-> GoodSku, url |-> GoodUrl, img |-> BrokenImage],
      [id |-> Str("102"), title |-> Str("Dipping ink 60 ml - Zombie Dip"),
       sku |-> GoodSku, url |-> GoodUrl, img |-> SwatchImage],
      [id |-> Str("103"), title |-> Str("zombie dip"),
       sku |-> GoodSku, url |-> GoodUrl, img |-> BlankImage],
      [id |-> Str("104"), title |-> Str("Acrylic Color ABYSS BLUE"),
       sku |-> <<>>, url |-> GoodUrl, img |-> SwatchImage],
      [id |-> Str("105"), title |-> <<>>,
       sku |-> GoodSku, url |-> GoodUrl, img |-> SwatchImage],
      [id |-> Str("106"), title |-> Str("Metallic Paint SHINY GOLD"),
       sku |-> GoodSku, url |-> Str("/en/shiny-gold"), img |-> NoImage],
      [id |-> Str("107"), title |-> Str("Acrylic Paint Set"),
       sku |-> GoodSku, url |-> GoodUrl, img |-> SwatchImage] }

\* the range keys a run is called with; "unknown" is no key of GSW_RANGES
RangeKeys == {"chameleon", "unknown"}

WorkerCounts == {1, 2}

(***************************************************************************)
(* Green Stuff World: scrape_range as a state machine.                     *)
(***************************************************************************)
GswIdle ==
    /\ pc = "idle"
    /\ range_key = "" /\ sample_colors = FALSE /\ max_workers = 0
    /\ all_products = <<>> /\ next_task = 0 /\ running = {}
    /\ paints = <<>> /\ deduplicated_paints = <<>> /\ duplicates_removed = 0
    /\ valid_paints = <<>> /\ rejected = <<>>

NormIdle ==
    /\ npc = "idle" /\ which = "" /\ title = <<>> /\ ntokens = 0
    /\ name1 = <<>> /\ name2 = <<>>

VendorIdle == vpc = "idle" /\ vendor = "" /\ raw = <<>> /\ catalog = <<>>

CallIdle == fn = "" /\ arg = <<>> /\ out = <<>>

\* no file written yet
NoFiles == [name \in {} |-> <<>>]

MainIdle == mpc = "idle" /\ main_range = "" /\ files = NoFiles /\ fetched = FALSE

\* no page loop under way
WalkIdle == site = <<>> /\ current_url = None /\ fetch_log = <<>>

Init == GswIdle /\ NormIdle /\ VendorIdle /\ CallIdle /\ MainIdle /\ WalkIdle

\* scrape_range fetching the first page before it looks at the range key
MutCallFetchesFirst(rk, sc, mw) ==
    /\ pc = "idle"
    /\ range_key' = rk /\ sample_colors' = sc /\ max_workers' = mw
    /\ pc' = IF rk \in DOMAIN GSW_RANGES THEN "collect" ELSE "done"
    /\ fetched' = TRUE
    /\ UNCHANGED <<all_products, next_task, running, paints, deduplicated_paints,
                   duplicates_removed, valid_paints, rejected>>
    /\ UNCHANGED <<normVars, vendorVars, callVars, mpc, main_range, files, walkVars>>

\* scrape_range is called; an unknown range key returns [] at once, a known
\* one enters the page loop, which fetches the first page
Call(rk, sc, mw) ==
    /\ pc = "idle"
    /\ range_key' = rk /\ sample_colors' = sc /\ max_workers' = mw
    /\ pc' = IF rk \in DOMAIN GSW_RANGES THEN "collect" ELSE "done"
    /\ fetched' = (rk \in DOMAIN GSW_RANGES)
    /\ UNCHANGED <<all_products, next_task, running, paints, deduplicated_paints,
                   duplicates_removed, valid_paints, rejected>>
    /\ UNCHANGED <<normVars, vendorVars, callVars, mpc, main_range, files, walkVars>>

\* the page loop adds one more product that passes is_paint_product to
\* all_products
Collect(p) ==
    /\ pc = "collect"
    /\ Len(all_products) < MaxProducts
    /\ is_paint_product(p)
    /\ all_products' = Append(all_products, p)
    /\ UNCHANGED <<pc, range_key, sample_colors, max_workers, next_task, running,
                   paints, deduplicated_paints, duplicates_removed, valid_paints,
                   rejected>>
    /\ UNCHANGED <<normVars, vendorVars, callVars, mainVars, walkVars>>

\* the page loop ends; without products scrape_range returns []
EndCollect ==
    /\ pc = "collect"
    /\ pc' = IF all_products = <<>> THEN "done" ELSE "process"
    /\ next_task' = 1
    /\ UNCHANGED <<range_key, sample_colors, max_workers, all_products, running,
                   paints, deduplicated_paints, duplicates_removed, valid_paints,
                   rejected>>
    /\ UNCHANGED <<normVars, vendorVars, callVars, mainVars, walkVars>>

Threaded == sample_colors /\ max_workers > 1

\* a worker of the pool takes the next submitted product
StartTask ==
    /\ pc = "process" /\ Threaded
    /\ next_task <= Len(all_products)
    /\ Cardinality(running) < max_workers
    /\ running' = running \cup {next_task}
    /\ next_task' = next_task + 1
    /\ UNCHANGED <<pc, range_key, sample_colors, max_workers, all_products, paints,
                   deduplicated_paints, duplicates_removed, valid_paints, rejected>>
    /\ UNCHANGED <<normVars, vendorVars, callVars, mainVars, walkVars>>

\* a task completes and as_completed hands its entry to the collecting loop
FinishTask(i) ==
    /\ pc = "process" /\ Threaded
    /\ i \in running
    /\ running' = running \ {i}
    /\ paints' = Append(paints, process_product(all_products[i], range_key, TRUE))
    /\ UNCHANGED <<pc, range_key, sample_colors, max_workers, all_products, next_task,
                   deduplicated_paints, duplicates_removed, valid_paints, rejected>>
    /\ UNCHANGED <<normVars, vendorVars, callVars, mainVars, walkVars>>

\* the sequential branch giving up the run at a product whose image cannot
\* be fetched
MutProcessNextAborts ==
    /\ pc = "process" /\ ~Threaded
    /\ next_task <= Len(all_products)
    /\ LET product == all_products[next_task]
           failed == sample_colors /\ Truthy(product.img.url) /\ product.img.fetch # "ok"
       IN  /\ paints' = IF failed THEN paints
                        ELSE Append(paints, process_product(product, range_key, sample_colors))
           /\ next_task' = IF failed THEN Len(all_products) + 1 ELSE next_task + 1
    /\ UNCHANGED <<pc, range_key, sample_colors, max_workers, all_products, running,
                   deduplicated_paints, duplicates_removed, valid_paints, rejected>>
    /\ UNCHANGED <<normVars, vendorVars, callVars, mainVars, walkVars>>

\* the sequential branch processes the products in order
ProcessNext ==
    /\ pc = "process" /\ ~Threaded
    /\ next_task <= Len(all_products)
    /\ paints' = Append(paints,
                        process_product(all_products[next_task], range_key, sample_colors))
    /\ next_task' = next_task + 1
    /\ UNCHANGED <<pc, range_key, sample_colors, max_workers, all_products, running,
                   deduplicated_paints, duplicates_removed, valid_paints, rejected>>
    /\ UNCHANGED <<normVars, vendorVars, callVars, mainVars, walkVars>>

\* the sort starting as soon as every product was picked up by a worker
MutSortPaintsEarly ==
    /\ pc = "process"
    /\ next_task > Len(all_products)
    /\ paints' = SortByName(paints)
    /\ pc' = "dedup"
    /\ UNCHANGED <<range_key, sample_colors, max_workers, all_products, next_task,
                   running, deduplicated_paints, duplicates_removed, valid_paints,
                   rejected>>
    /\ UNCHANGED <<normVars, vendorVars, callVars, mainVars, walkVars>>

\* paints.sort(key=lambda x: x['name'].lower()), once every product is done
SortPaints ==
    /\ pc = "process"
    /\ next_task > Len(all_products) /\ running = {}
    /\ paints' = SortByName(paints)
    /\ pc' = "dedup"
    /\ UNCHANGED <<range_key, sample_colors, max_workers, all_products, next_task,
                   running, deduplicated_paints, duplicates_removed, valid_paints,
                   rejected>>
    /\ UNCHANGED <<normVars, vendorVars, callVars, mainVars, walkVars>>

\* the dedup pass over the sorted entries
DedupPass ==
    /\ pc = "dedup"
    /\ LET st == Deduplicate(paints)
       IN  /\ deduplicated_paints' = st.deduplicated_paints
           /\ duplicates_removed' = st.duplicates_removed
    /\ pc' = "validate"
    /\ UNCHANGED <<range_key, sample_colors, max_workers, all_products, next_task,
                   running, paints, valid_paints, rejected>>
    /\ UNCHANGED <<normVars, vendorVars, callVars, mainVars, walkVars>>

\* the validation pass over the deduplicated entries; scrape_range returns
\* valid_paints
ValidatePass ==
    /\ pc = "validate"
    /\ valid_paints' = ValidPaints(deduplicated_paints)
    /\ rejected' = RejectedPaints(deduplicated_paints)
    /\ pc' = "done"
    /\ UNCHANGED <<range_key, sample_colors, max_workers, all_products, next_task,
                   running, paints, deduplicated_paints, duplicates_removed>>
    /\ UNCHANGED <<normVars, vendorVars, callVars, mainVars, walkVars>>

Next ==
    \/ \E rk \in RangeKeys, sc \in BOOLEAN, mw \in WorkerCounts : Call(rk, sc, mw)
    \/ \E p \in ProductPool : Collect(p)
    \/ EndCollect
    \/ StartTask
    \/ \E i \in running : FinishTask(i)
    \/ ProcessNext
    \/ SortPaints
    \/ DedupPass
    \/ ValidatePass

Spec == Init /\ [][Next]_vars

(***************************************************************************)
(* The validation pass on its own: the entries it is given are drawn from  *)
(* EntryPool, which holds one entry for each issue of validate_paint.      *)
(***************************************************************************)
MaxEntries == 3

GoodEntry ==
    [ brand |-> Str("Green Stuff World"), brandData |-> NoBrandData,
      hex |-> Str("#112233"), id |-> Str("gsw-201"), name |-> Str("Abyss Blue"),
      range |-> Str("Acrylic Paints"), sku |-> GoodSku, type |-> Str("opaque"),
      url |-> GoodUrl ]

EntryPool ==
    { GoodEntry,
      [GoodEntry EXCEPT !.id = <<>>, !.name = Str("Bone White")],
      [GoodEntry EXCEPT !.id = Str("gsw-203"), !.name = <<>>],
      [GoodEntry EXCEPT !.id = Str("gsw-204"), !.name = Str("Crimson"), !.url = <<>>],
      [GoodEntry EXCEPT !.id = Str("gsw-205"), !.name = Str("Dune"), !.sku = <<>>],
      [GoodEntry EXCEPT !.id = Str("gsw-206"), !.name = Str("Ember"), !.hex = Str("#12345")],
      [GoodEntry EXCEPT !.id = Str("gsw-207"), !.name = Str("Satin"), !.type = Str("medium")] }

InitValidate ==
    /\ pc = "validate"
    /\ range_key = "" /\ sample_colors = FALSE /\ max_workers = 0
    /\ all_products = <<>> /\ next_task = 0 /\ running = {}
    /\ paints = <<>> /\ deduplicated_paints = <<>> /\ duplicates_removed = 0
    /\ valid_paints = <<>> /\ rejected = <<>>
    /\ NormIdle /\ VendorIdle /\ CallIdle /\ MainIdle /\ WalkIdle

\* one more entry reaches the validation pass
GiveEntry(e) ==
    /\ pc = "validate"
    /\ Len(deduplicated_paints) < MaxEntries
    /\ \A i \in 1..Len(deduplicated_paints) :
           lower(deduplicated_paints[i].name) # lower(e.name)
    /\ deduplicated_paints' = Append(deduplicated_paints, e)
    /\ UNCHANGED <<pc, range_key, sample_colors, max_workers, all_products, next_task,
                   running, paints, duplicates_removed, valid_paints, rejected>>
    /\ UNCHANGED <<normVars, vendorVars, callVars, mainVars, walkVars>>

NextValidate ==
    \/ \E e \in EntryPool : GiveEntry(e)
    \/ ValidatePass

SpecValidate == InitValidate /\ [][NextValidate]_vars

(***************************************************************************)
(* Claims about the validation and dedup passes.                           *)
(***************************************************************************)
\* the entries of seq as a set
Range(seq) == {seq[i] : i \in 1..Len(seq)}

AdvisoryTags == {"InvalidSku", "InvalidHex"}
CriticalTags == {"MissingId", "InvalidName", "InvalidUrl"}

\* C1: once scrape_range has returned, every entry that reached the
\* validation pass with no issue other than InvalidSku and InvalidHex is in
\* the returned catalog, with the sku and hex it had
C1_AdvisoryEntriesKept ==
    pc = "done" =>
        \A e \in Range(deduplicated_paints) :
            (IssueTags(e) # {} /\ IssueTags(e) \subseteq AdvisoryTags)
                => e \in Range(valid_paints)

C3_CriticalEntriesDropped ==
    pc = "done" =>
        \A e \in Range(deduplicated_paints) :
            /\ (IssueTags(e) \cap CriticalTags # {}) => e \notin Range(valid_paints)
            /\ e.name = <<>> => "InvalidName" \in IssueTags(e)

\* C3 witness: an entry without a name, with a well-formed hex and sku, went
\* through the validation pass and is not in the returned catalog
C3_Witness ==
    /\ pc = "done"
    /\ \E e \in Range(deduplicated_paints) :
           /\ e.name = <<>>
           /\ IssueTags(e) = {"InvalidName"}
           /\ is_valid_hex(e.hex) /\ is_valid_sku(e.sku)
           /\ e \notin Range(valid_paints)
           /\ e \in Range(rejected)

\* the positions of entries that are the first of their name group
GroupFirsts(entries) ==
    {i \in 1..Len(entries) :
        \A j \in 1..(i - 1) : lower(entries[j].name) # lower(entries[i].name)}

\* the positions of the group that starts at position i
GroupOf(entries, i) ==
    {j \in i..Len(entries) : lower(entries[j].name) = lower(entries[i].name)}

\* the entry the claim says represents the group that starts at position i
KeptOf(entries, i) ==
    LET withHex == {j \in GroupOf(entries, i) : entries[j].hex # <<>>}
    IN  IF entries[i].hex = <<>> /\ withHex # {}
        THEN entries[CHOOSE j \in withHex : \A k \in withHex : j <= k]
        ELSE entries[i]

\* C10: the dedup pass outputs one entry per group of equal lowercased
\* names, the groups in the order of their first entries; the entry of a
\* group is its first entry, unless that one has an empty hex and a later
\* one has not, and then it is the first later entry with a hex, placed at
\* the group's position
C10_DedupKeepsFirstOrFirstWithHex ==
    pc \in {"validate", "done"} /\ paints # <<>> =>
        /\ Len(deduplicated_paints) = Cardinality(GroupFirsts(paints))
        /\ \A i \in GroupFirsts(paints) :
               deduplicated_paints[Cardinality({f \in GroupFirsts(paints) : f <= i})]
                   = KeptOf(paints, i)

\* C10 witness: a group of three whose first entry has no hex and whose two
\* later entries have different hexes was reduced to the second entry
C10_Witness ==
    /\ pc = "done"
    /\ Len(paints) = 3
    /\ Cardinality(GroupFirsts(paints)) = 1
    /\ paints[1].hex = <<>> /\ paints[2].hex # <<>> /\ paints[3].hex # <<>>
    /\ paints[2].hex # paints[3].hex
    /\ deduplicated_paints = <<paints[2]>>
    /\ duplicates_removed = 2

(***************************************************************************)
(* The two name normalisers on their own: a title is assembled from        *)
(* tokens, normalised, and the result normalised once more.                *)
(***************************************************************************)
Normalizers == {"gsw", "kimera"}

\* pieces of product titles as the two shops write them
TitleTokens(w) ==
    IF w = "gsw"
    THEN {Str("Acrylic Color "), Str("ACRYLIC COLOR "), Str("Dry Brush - "),
          Str("Fluor Paint "), Str("OLIVE-BROWN OPS"), Str("ALPHA TURQUOISE"),
          Str("Zombie Dip"), Str(" 30 ml"), Str(" 17ML ")}
    ELSE {Str("The Red"), Str("the white "), Str(" - Series 1"), Str("-series 22 "),
          Str(" - Series"), Str(" 3")}

Normalize(w, t) == IF w = "gsw" THEN normalize_paint_name(t) ELSE normalize_name(t)

\* one of the two normalisers is picked
ChooseNormalizer(w) ==
    /\ pc = "idle" /\ npc = "idle"
    /\ which' = w /\ npc' = "build"
    /\ UNCHANGED <<title, ntokens, name1, name2>>
    /\ UNCHANGED <<gswVars, vendorVars, callVars, mainVars, walkVars>>

\* the title grows by one token
AppendToken(tok) ==
    /\ npc = "build" /\ ntokens < MaxTokens
    /\ title' = title \o tok /\ ntokens' = ntokens + 1
    /\ UNCHANGED <<npc, which, name1, name2>>
    /\ UNCHANGED <<gswVars, vendorVars, callVars, mainVars, walkVars>>

\* the title is normalised
NormalizeOnce ==
    /\ npc = "build"
    /\ name1' = Normalize(which, title) /\ npc' = "once"
    /\ UNCHANGED <<which, title, ntokens, name2>>
    /\ UNCHANGED <<gswVars, vendorVars, callVars, mainVars, walkVars>>

\* the normalised name is normalised again
NormalizeAgain ==
    /\ npc = "once"
    /\ name2' = Normalize(which, name1) /\ npc' = "twice"
    /\ UNCHANGED <<which, title, ntokens, name1>>
    /\ UNCHANGED <<gswVars, vendorVars, callVars, mainVars, walkVars>>

NextNorm ==
    \/ \E w \in Normalizers : ChooseNormalizer(w)
    \/ \E tok \in TitleTokens(which) : AppendToken(tok)
    \/ NormalizeOnce
    \/ NormalizeAgain

SpecNorm == Init /\ [][NextNorm]_vars

(***************************************************************************)
(* Claims about name normalisation.                                        *)
(***************************************************************************)
\* C7: normalising a normalised name changes nothing, for
\* normalize_paint_name and for normalize_name
C7_NormalizeIdempotent == npc = "twice" => name2 = name1

ScenarioATitle == Str("ACRYLIC COLOR OLIVE-BROWN OPS")
ScenarioAMixedTitle == Str("Acrylic Color OLIVE-BROWN OPS")
ScenarioBTitle == Str("Dry Brush - ALPHA TURQUOISE 30 ml")

IsVolume(v) ==
    LET w == strip(v)
        digits == IF Len(w) >= 2 THEN strip(SubSeq(w, 1, Len(w) - 2)) ELSE <<>>
    IN  /\ Len(w) >= 3
        /\ lower(SubSeq(w, Len(w) - 1, Len(w))) = Str("ml")
        /\ digits # <<>>
        /\ \A i \in 1..Len(digits) : digits[i] \in DigitSet

\* the name the three steps give when taken in the order prefix, volume
\* suffix, case: stated by positions in the title rather than by the loop
OrderedSteps(t) ==
    LET s == strip(t)
        hits == {k \in 1..Len(prefixes_to_remove) : startswith(s, prefixes_to_remove[k])}
        first == CHOOSE k \in hits : \A j \in hits : k <= j
        rest == IF hits = {} THEN s
                ELSE SubSeq(s, Len(prefixes_to_remove[first]) + 1, Len(s))
        cuts == {i \in 1..Len(rest) : IsVolume(SubSeq(rest, i, Len(rest)))}
        body == IF cuts = {} THEN rest
                ELSE SubSeq(rest, 1, (CHOOSE i \in cuts : \A j \in cuts : i <= j) - 1)
        shouting == /\ \E i \in 1..Len(body) : body[i] \in UpperSet
                    /\ \A i \in 1..Len(body) : body[i] \notin LowerSet
        cased == [i \in 1..Len(body) |->
                    IF body[i] \notin LetterSet THEN body[i]
                    ELSE IF i > 1 /\ body[i - 1] \in LetterSet THEN LowerOf[body[i]]
                    ELSE UpperOf[body[i]]]
    IN  strip(IF shouting THEN cased ELSE body)

\* C9: normalize_paint_name removes the first listed prefix the title starts
\* with and no other, then the trailing number-and-ml suffix, then
\* title-cases the remainder when it is all upper case; so
\* "Dry Brush - ALPHA TURQUOISE 30 ml" gives "Alpha Turquoise"
C9_PrefixThenVolumeThenCase ==
    (which = "gsw" /\ npc \in {"once", "twice"}) =>
        /\ name1 = OrderedSteps(title)
        /\ title = ScenarioBTitle => name1 = Str("Alpha Turquoise")

\* C9 witness: the Scenario B title, which has a prefix, an upper-case
\* remainder and a volume suffix, was normalised to "Alpha Turquoise"
C9_Witness ==
    /\ which = "gsw" /\ npc = "once"
    /\ title = ScenarioBTitle
    /\ name1 = Str("Alpha Turquoise")

(***************************************************************************)
(* Kimera, Turbodork and Scale75: what the three samplers and sorts share. *)
(* An image record is read as for Green Stuff World; entries are modelled  *)
(* by their fields brand, hex, id, name, range, sku, type and url (and     *)
(* brandData for Turbodork), which are the fields the runs compute from    *)
(* the title, handle, SKU and image of a product.                          *)
(***************************************************************************)
\* the loop over sample_regions with the vendor's brightness limits:
\* a region is skipped when brightness > bright or brightness < dark
RECURSIVE BestColorWithin(_, _, _, _)
BestColorWithin(regions, best, dark, bright) ==
    IF regions = <<>> THEN best
    ELSE LET c == Head(regions)
             skipped == Sum3(c) > 3 * bright \/ Sum3(c) < 3 * dark
         IN  IF skipped THEN BestColorWithin(Tail(regions), best, dark, bright)
             ELSE IF best = None \/ ScoreGreater(c, best)
                  THEN BestColorWithin(Tail(regions), c, dark, bright)
             ELSE BestColorWithin(Tail(regions), best, dark, bright)

\* a < b for tuples of str
RECURSIVE KeyLess(_, _)
KeyLess(a, b) ==
    IF b = <<>> THEN FALSE
    ELSE IF a = <<>> THEN TRUE
    ELSE IF Head(a) = Head(b) THEN KeyLess(Tail(a), Tail(b))
    ELSE StrLess(Head(a), Head(b))

\* a sort that puts an entry before the entries of equal key
RECURSIVE MutInsertBeforeEqual(_, _)
MutInsertBeforeEqual(sorted, pair) ==
    IF sorted = <<>> THEN <<pair>>
    ELSE IF ~KeyLess(Head(sorted)[1], pair[1]) THEN <<pair>> \o sorted
    ELSE <<Head(sorted)>> \o MutInsertBeforeEqual(Tail(sorted), pair)

\* list.sort(key=...) on <<key, entry>> pairs: stable
RECURSIVE InsertByKey(_, _)
InsertByKey(sorted, pair) ==
    IF sorted = <<>> THEN <<pair>>
    ELSE IF KeyLess(pair[1], Head(sorted)[1]) THEN <<pair>> \o sorted
    ELSE <<Head(sorted)>> \o InsertByKey(Tail(sorted), pair)

RECURSIVE SortPairs(_)
SortPairs(pairs) ==
    IF pairs = <<>> THEN <<>>
    ELSE InsertByKey(SortPairs(SubSeq(pairs, 1, Len(pairs) - 1)), pairs[Len(pairs)])

\* entries sorted by the key Key[i] of the entry at position i
SortedByKeys(entries, keys) ==
    LET sorted == SortPairs([i \in 1..Len(entries) |-> <<keys[i], entries[i]>>])
    IN  [i \in 1..Len(entries) |-> sorted[i][2]]

\* whether one of the keywords occurs in text
AnyOf(keywords, text) == \E k \in keywords : contains(text, Str(k))

(***************************************************************************)
(* Kimera.                                                                 *)
(***************************************************************************)
KIMERA_BASE_URL == Str("https://www.elgrecominiatures.co.uk")

KIMERA_EXCLUDE_KEYWORDS ==
    {"set", "palette", "blend", "velvet inks", "signature blend", "masclans", "richiero"}

\* SKU_CATEGORIES in the order of the dict
SKU_CATEGORIES ==
    << <<Str("KM-PPS1"), Str("Pure Pigments")>>, <<Str("KMP-"), Str("Pure Pigments")>>,
       <<Str("KM-SSMP"), Str("Signatures")>>, <<Str("KM-SSDC"), Str("Signatures")>>,
       <<Str("KM-SSRK"), Str("Signatures")>>, <<Str("KM-SSFR"), Str("Signatures")>> >>

is_individual_paint(product) ==
    LET sku == upper(product.sku)
    IN  /\ ~AnyOf(KIMERA_EXCLUDE_KEYWORDS, lower(product.title))
        /\ ~AnyOf(KIMERA_EXCLUDE_KEYWORDS, lower(product.handle))
        /\ \/ startswith(sku, Str("KM-PPS1"))
           \/ startswith(sku, Str("KMP-"))
           \/ startswith(sku, Str("KM-SS"))

get_range_from_sku(sku) ==
    LET hits == {k \in 1..Len(SKU_CATEGORIES) : startswith(upper(sku), SKU_CATEGORIES[k][1])}
    IN  IF hits = {} THEN Str("Pure Pigments")
        ELSE SKU_CATEGORIES[CHOOSE k \in hits : \A j \in hits : k <= j][2]

\* re.sub(r'[^a-z0-9]+', '-', slug): every run of other characters becomes
\* one hyphen
RECURSIVE SlugRuns(_, _)
SlugRuns(s, in_run) ==
    IF s = <<>> THEN <<>>
    ELSE IF Head(s) \in LowerSet \cup DigitSet THEN <<Head(s)>> \o SlugRuns(Tail(s), FALSE)
    ELSE IF in_run THEN SlugRuns(Tail(s), TRUE)
    ELSE <<"-">> \o SlugRuns(Tail(s), TRUE)

slugify(name) ==
    LET slug == SlugRuns(lower(name), FALSE)
        t == From(slug, Span(slug, {"-"}) + 1)
    IN  SubSeq(t, 1, Len(t) - SpanEnd(t, {"-"}))

\* PIGMENT_CODES as <<name, code>> pairs
PIGMENT_CODES ==
    << <<Str("the white"), Str("PW6")>>, <<Str("carbon black"), Str("PBk7")>>,
       <<Str("the red"), Str("PR254")>>, <<Str("orange"), Str("PO73")>>,
       <<Str("warm yellow"), Str("PY83")>>, <<Str("cold yellow"), Str("PY175")>>,
       <<Str("phthalo blue (red shade)"), Str("PB15:1")>>, <<Str("phthalo blue (green shade)"), Str("PB15:3")>>,
       <<Str("magenta"), Str("PR122")>>, <<Str("phthalo green"), Str("PG36")>>,
       <<Str("violet"), Str("PV23")>>, <<Str("yellow oxide"), Str("PY42")>>,
       <<Str("red oxide"), Str("PR101")>>, <<Str("satin medium"), None>>,
       <<Str("oxide brown dark"), Str("PBr7")>>, <<Str("oxide brown medium"), Str("PBr7")>>,
       <<Str("oxide brown light"), Str("PY42")>>, <<Str("dark ochre"), Str("PY43")>>,
       <<Str("mars orange"), Str("PR101")>>, <<Str("honeymoon yellow"), Str("PY42")>>,
       <<Str("diarylide yellow"), Str("PY170")>>, <<Str("alizarine crimson"), Str("PR177")>>,
       <<Str("royal brown"), Str("PBr7")>>, <<Str("ultramarine blue"), Str("PB29")>>,
       <<Str("toludine red"), Str("PR3")>>, <<Str("purple"), Str("PV23")>>,
       <<Str("oxide green"), Str("PG17")>>, <<Str("cobalt bluegreen"), Str("PB36")>> >>

\* SIGNATURE_ARTISTS as <<prefix, artist>> pairs, in the order of the dict
SIGNATURE_ARTISTS ==
    << <<Str("pisarski"), Str("Michal Pisarski")>>,
       <<Str("cartacci"), Str("Danilo Cartacci")>>,
       <<Str("karlsson"), Str("Robert Karlsson")>>,
       <<Str("russo"), Str("Fabrizio Russo")>> >>

\* PIGMENT_CODES.get(name.lower().strip())
get_pigment_code(name) ==
    LET name_lower == strip(lower(name))
        hits == {k \in 1..Len(PIGMENT_CODES) : PIGMENT_CODES[k][1] = name_lower}
    IN  IF hits = {} THEN None ELSE PIGMENT_CODES[CHOOSE k \in hits : TRUE][2]

get_artist_from_name(name) ==
    LET hits == {k \in 1..Len(SIGNATURE_ARTISTS) :
                    startswith(lower(name), SIGNATURE_ARTISTS[k][1])}
    IN  IF hits = {} THEN None
        ELSE SIGNATURE_ARTISTS[CHOOSE k \in hits : \A j \in hits : k <= j][2]

kimera_sample_color_from_image(img) ==
    IF ~Truthy(img.url) THEN None
    ELSE IF img.fetch # "ok" THEN None
    ELSE LET best_color == BestColorWithin(img.regions, None, 10, 245)
         IN  IF best_color # None THEN FormatHex(best_color)
             ELSE FormatHex(getpixel(img, CenterPoint(img.size)))

kimera_process_product(product, do_sample) ==
    LET name == normalize_name(product.title)
        hex_color == IF do_sample /\ Truthy(product.img.url)
                     THEN kimera_sample_color_from_image(product.img) ELSE None
        pigment_code == get_pigment_code(name)
        artist == get_artist_from_name(name)
    IN  [ brand |-> Str("Kimera"),
          brandData |->
              (IF Truthy(pigment_code)
               THEN [pigmentCode |-> pigment_code] @@ [singlePigment |-> TRUE]
               ELSE NoBrandData)
              @@ (IF Truthy(artist) THEN [artist |-> artist] ELSE NoBrandData),
          hex |-> OrEmpty(hex_color),
          id |-> Str("kimera-") \o slugify(name),
          name |-> name,
          range |-> get_range_from_sku(product.sku),
          sku |-> product.sku,
          type |-> IF contains(lower(name), Str("satin medium"))
                   THEN Str("medium") ELSE Str("opaque"),
          url |-> KIMERA_BASE_URL \o Str("/products/") \o product.handle ]

\* the range names of all_paints in the order scrape_all first meets them
RECURSIVE RangesInOrder(_, _)
RangesInOrder(all_paints, seen) ==
    IF all_paints = <<>> THEN seen
    ELSE IF \E i \in 1..Len(seen) : slugify(seen[i]) = slugify(Head(all_paints).range)
         THEN RangesInOrder(Tail(all_paints), seen)
    ELSE RangesInOrder(Tail(all_paints), Append(seen, Head(all_paints).range))

RECURSIVE Flatten(_)
Flatten(lists) == IF lists = <<>> THEN <<>> ELSE Head(lists) \o Flatten(Tail(lists))

\* scrape_all from all_paints on: the paints of each range, in the order the
\* ranges are first met, sorted by lower-cased name
kimera_ranges(all_paints) ==
    LET names == RangesInOrder(all_paints, <<>>)
        of_range(r) == SelectSeq(all_paints, LAMBDA p : slugify(p.range) = slugify(r))
        by_name(ps) == SortedByKeys(ps, [i \in 1..Len(ps) |-> <<lower(ps[i].name)>>])
    IN  [k \in 1..Len(names) |-> by_name(of_range(names[k]))]

\* main without --generate: the lists of the ranges put together and sorted
\* by (range, lower-cased name)
kimera_catalog(all_paints) ==
    LET together == Flatten(kimera_ranges(all_paints))
    IN  SortedByKeys(together,
                     [i \in 1..Len(together) |->
                         <<together[i].range, lower(together[i].name)>>])

(***************************************************************************)
(* Turbodork.  A product is given with its variants, as the collection     *)
(* JSON gives it, with its tags as a list; img is the image that           *)
(* get_swatch_image_url picks (url None when the product has no image).    *)
(***************************************************************************)
TURBODORK_BASE_URL == Str("https://turbodork.com")

\* TURBODORK_RANGES as <<key, info>> pairs
TURBODORK_RANGES ==
    <<
      <<"turboshift", [name |-> Str("Turboshift"), range |-> Str("Turboshift"), type |-> Str("metallic")]>>,
      <<"metallic", [name |-> Str("Metallic"), range |-> Str("Metallic"), type |-> Str("metallic")]>>,
      <<"zenishift", [name |-> Str("ZeniShift"), range |-> Str("ZeniShift"), type |-> Str("metallic")]>>,
      <<"mediums", [name |-> Str("Mediums"), range |-> Str("Mediums"), type |-> Str("technical")]>> >>

TURBODORK_EXCLUDE_KEYWORDS ==
    {"bundle", "set", "case", "full case", "collection", "kit", "pack", "brush", "palette", "tool", "cup", "handle", "stick", "mixing", "gift card", "hat", "sticker", "merchandise", "6 count", "12 count", "24 count"}

\* range_key in RANGES
KnownRange(ranges, rkey) == \E k \in 1..Len(ranges) : ranges[k][1] = rkey

\* RANGES[range_key]
RangeInfo(ranges, rkey) == ranges[CHOOSE k \in 1..Len(ranges) : ranges[k][1] = rkey][2]

turbodork_is_paint_product(product) ==
    /\ ~AnyOf(TURBODORK_EXCLUDE_KEYWORDS, lower(product.title))
    /\ ~AnyOf(TURBODORK_EXCLUDE_KEYWORDS, lower(product.handle))
    /\ ~contains(lower(product.product_type), Str("bundle"))
    /\ ~contains(lower(product.product_type), Str("set"))

\* re.sub(r'_\d+$', '', sku)
extract_sku(product) ==
    LET sku == product.sku
        n == SpanEnd(sku, DigitSet)
    IN  IF n >= 1 /\ Len(sku) > n /\ sku[Len(sku) - n] = "_"
        THEN SubSeq(sku, 1, Len(sku) - n - 1) ELSE sku

\* str.replace(old, new) for single characters
ReplaceChar(s, old, new) == [i \in 1..Len(s) |-> IF s[i] = old THEN new ELSE s[i]]

turbodork_sample_color_from_image(img) ==
    IF img.fetch # "ok" THEN None
    ELSE LET best_color == BestColorWithin(img.regions, None, 15, 240)
         IN  IF best_color # None THEN FormatHex(best_color)
             ELSE FormatHex(getpixel(img, CenterPoint(img.size)))

turbodork_sample_secondary_color(img) ==
    IF img.fetch2 # "ok" \/ img.secondary = <<>> THEN None
    ELSE FormatHex(img.secondary[1])

\* str.replace(old, '')
RECURSIVE RemoveAll(_, _)
RemoveAll(s, old) ==
    IF s = <<>> \/ old = <<>> THEN s
    ELSE IF startswith(s, old) THEN RemoveAll(From(s, Len(old) + 1), old)
    ELSE <<Head(s)>> \o RemoveAll(Tail(s), old)

\* the loop of extract_color_info_from_tags over a list of tags
RECURSIVE TagLoop(_, _)
TagLoop(tags, info) ==
    IF tags = <<>> THEN info
    ELSE LET tag_lower == lower(Head(tags))
         IN  TagLoop(Tail(tags),
                [ color_shift |-> info.color_shift \/ contains(tag_lower, Str("shift")),
                  tone |-> IF startswith(tag_lower, Str("tone:"))
                           THEN titlecase(RemoveAll(tag_lower, Str("tone:")))
                           ELSE info.tone,
                  basecoat |-> IF startswith(tag_lower, Str("primer:"))
                               THEN titlecase(RemoveAll(tag_lower, Str("primer:")))
                               ELSE info.basecoat,
                  shift_colors |-> IF startswith(tag_lower, Str("zeni:"))
                                   THEN RemoveAll(tag_lower, Str("zeni:"))
                                   ELSE info.shift_colors,
                  colors |-> IF startswith(tag_lower, Str("color:"))
                             THEN Append(info.colors, RemoveAll(tag_lower, Str("color:")))
                             ELSE info.colors ])

extract_color_info_from_tags(tags) ==
    TagLoop(tags, [color_shift |-> FALSE, tone |-> None, basecoat |-> None,
                   shift_colors |-> None, colors |-> <<>>])

turbodork_process_product(product, range_info, do_sample) ==
    LET product_type_lower == lower(product.product_type)
        shifting == contains(product_type_lower, Str("turboshift"))
                    \/ contains(product_type_lower, Str("zenishift"))
        metallic == shifting \/ contains(product_type_lower, Str("metallic"))
        paint_type == IF metallic THEN Str("metallic")
                      ELSE IF contains(product_type_lower, Str("medium")) THEN Str("technical")
                      ELSE range_info.type
        color_info == extract_color_info_from_tags(product.tags)
        is_color_shift ==
            \/ IF shifting THEN TRUE
               ELSE IF metallic \/ contains(product_type_lower, Str("medium")) THEN FALSE
               ELSE contains(lower(range_info.name), Str("shift"))
            \/ color_info.color_shift
        sampling == do_sample /\ Truthy(product.img.url)
        hex_color == IF sampling THEN turbodork_sample_color_from_image(product.img) ELSE None
        secondary_hex == IF sampling /\ is_color_shift /\ Truthy(hex_color)
                         THEN turbodork_sample_secondary_color(product.img) ELSE None
        with_secondary == /\ Truthy(secondary_hex) /\ secondary_hex # hex_color
                          /\ Sum3(ParseHex(secondary_hex)) > 60
                          /\ Sum3(ParseHex(secondary_hex)) < 705
        paint_id == Str("turbodork-") \o ReplaceChar(product.handle, "/", "-")
    IN  [ brand |-> Str("Turbodork"),
          brandData |->
              (IF is_color_shift THEN [colorShift |-> TRUE] ELSE NoBrandData)
              @@ (IF is_color_shift /\ with_secondary
                  THEN [secondaryHex |-> secondary_hex] ELSE NoBrandData)
              @@ (IF is_color_shift /\ Truthy(color_info.shift_colors)
                  THEN [shiftColors |-> color_info.shift_colors]
                  ELSE IF is_color_shift /\ Len(color_info.colors) >= 2
                  THEN [shiftColors |-> color_info.colors[1] \o <<"-">> \o color_info.colors[2]]
                  ELSE NoBrandData)
              @@ (IF Truthy(color_info.tone)
                  THEN [tone |-> color_info.tone] ELSE NoBrandData)
              @@ (IF Truthy(color_info.basecoat)
                  THEN [recommendedBasecoat |-> color_info.basecoat] ELSE NoBrandData),
          hex |-> OrEmpty(hex_color),
          id |-> IF endswith(paint_id, Str("-1"))
                 THEN SubSeq(paint_id, 1, Len(paint_id) - 2) ELSE paint_id,
          name |-> product.title,
          range |-> range_info.range,
          sku |-> extract_sku(product),
          type |-> paint_type,
          url |-> TURBODORK_BASE_URL \o Str("/products/") \o product.handle ]

\* scrape_range from the product list on: the filter, process_product for
\* each product in the order given, the sort by lower-cased name
turbodork_catalog(products, rkey, do_sample, order) ==
    LET kept == SelectSeq(products, turbodork_is_paint_product)
        processed == [i \in 1..Len(kept) |->
                      turbodork_process_product(kept[order[i]],
                                                RangeInfo(TURBODORK_RANGES, rkey), do_sample)]
    IN  SortedByKeys(processed,
                     [i \in 1..Len(processed) |-> <<lower(processed[i].name)>>])

(***************************************************************************)
(* Scale75.  A product is a dict with name, handle and sku as              *)
(* extract_products_from_page builds it; img is the image that             *)
(* sample_paint_color settles on (swatch_url or main_url; url None when    *)
(* there is neither).  Names hold no HTML entity.                          *)
(***************************************************************************)
SCALE75_BASE_URL == Str("https://scale75.com")

\* SCALE75_RANGES as <<key, info>> pairs
SCALE75_RANGES ==
    <<
      <<"scalecolor", [name |-> Str("Scale Color"), range |-> Str("Scale Color"), type |-> Str("opaque")]>>,
      <<"fantasy-games", [name |-> Str("Fantasy & Games"), range |-> Str("Fantasy & Games"), type |-> Str("opaque")]>>,
      <<"metal-n-alchemy", [name |-> Str("Metal n' Alchemy"), range |-> Str("Metal n' Alchemy"), type |-> Str("metallic")]>>,
      <<"instant-colors", [name |-> Str("Instant Colors"), range |-> Str("Instant Colors"), type |-> Str("contrast")]>>,
      <<"artist", [name |-> Str("Scalecolor Artist"), range |-> Str("Scalecolor Artist"), type |-> Str("opaque")]>>,
      <<"inktensity", [name |-> Str("Inktensity"), range |-> Str("Inktensity"), type |-> Str("ink")]>>,
      <<"fx-fluor", [name |-> Str("FX Fluor"), range |-> Str("FX Fluor"), type |-> Str("opaque")]>>,
      <<"warfront", [name |-> Str("Warfront"), range |-> Str("Warfront"), type |-> Str("opaque")]>>,
      <<"drop-paint", [name |-> Str("Drop & Paint"), range |-> Str("Drop & Paint"), type |-> Str("opaque")]>>,
      <<"flow", [name |-> Str("Flow"), range |-> Str("Flow"), type |-> Str("opaque")]>>,
      <<"scalecolor-games", [name |-> Str("Scalecolor Games"), range |-> Str("Scalecolor Games"), type |-> Str("opaque")]>> >>

\* TYPE_OVERRIDES in the order of the dict
TYPE_OVERRIDES ==
    << <<Str("metallic"), Str("metallic")>>,
       <<Str("metal"), Str("metallic")>>,
       <<Str("gold"), Str("metallic")>>,
       <<Str("silver"), Str("metallic")>>,
       <<Str("copper"), Str("metallic")>>,
       <<Str("bronze"), Str("metallic")>>,
       <<Str("brass"), Str("metallic")>>,
       <<Str("alchemy"), Str("metallic")>>,
       <<Str("chrome"), Str("metallic")>>,
       <<Str("ink"), Str("ink")>>,
       <<Str("wash"), Str("wash")>>,
       <<Str("primer"), Str("primer")>>,
       <<Str("varnish"), Str("varnish")>>,
       <<Str("glaze"), Str("transparent")>> >>

\* str.split(): the maximal runs of non-space characters
RECURSIVE Words(_)
Words(s) ==
    LET t == From(s, Span(s, {" "}) + 1)
        n == Len(t) - Len(From(t, 1 + Span(t, CharSet \ {" "})))
    IN  IF t = <<>> THEN <<>> ELSE <<SubSeq(t, 1, n)>> \o Words(From(t, n + 1))

RECURSIVE Join(_)
Join(words) ==
    IF words = <<>> THEN <<>>
    ELSE IF Len(words) = 1 THEN words[1]
    ELSE words[1] \o <<" ">> \o Join(Tail(words))

to_title_case(name) ==
    LET words == Words(name)
    IN  IF name = <<>> THEN name
        ELSE Join([i \in 1..Len(words) |->
                      IF upper(words[i]) = words[i] \/ lower(words[i]) = words[i]
                      THEN titlecase(words[i]) ELSE words[i]])

scale75_get_paint_type(name, default_type) ==
    LET hits == {k \in 1..Len(TYPE_OVERRIDES) : contains(lower(name), TYPE_OVERRIDES[k][1])}
    IN  IF hits = {} THEN default_type
        ELSE TYPE_OVERRIDES[CHOOSE k \in hits : \A j \in hits : k <= j][2]

\* (int(width * 0.50), int(height * 0.55))
Scale75FallbackPoint(size) == <<size[1] \div 2, (size[2] * 55) \div 100>>

scale75_sample_color_from_image(img) ==
    IF img.fetch # "ok" THEN None
    ELSE LET best_color == BestColorWithin(img.regions, None, 10, 245)
         IN  IF best_color # None THEN FormatHex(best_color)
             ELSE FormatHex(getpixel(img, Scale75FallbackPoint(img.size)))

\* the paint dict gets the key hex only when it has a handle
sample_paint_color(paint) ==
    IF ~Truthy(paint.handle) THEN paint
    ELSE [hex |-> IF Truthy(paint.img.url)
                  THEN scale75_sample_color_from_image(paint.img) ELSE None] @@ paint

\* scrape_range from all_products on: the sampling, then the metadata
scale75_scrape_range(products, rkey, do_sample) ==
    LET range_info == RangeInfo(SCALE75_RANGES, rkey)
    IN  [i \in 1..Len(products) |->
            [paint_type |-> scale75_get_paint_type(products[i].name, range_info.type),
             range_name |-> range_info.range,
             product_url |-> SCALE75_BASE_URL \o Str("/en/products/") \o products[i].handle]
            @@ (IF do_sample THEN sample_paint_color(products[i]) ELSE products[i])]

\* the loop of generate_catalogue: products without sku and products whose
\* sku was seen are skipped
RECURSIVE CatalogueLoop(_, _, _)
CatalogueLoop(scraped_data, seen_skus, catalogue) ==
    IF scraped_data = <<>> THEN catalogue
    ELSE LET paint == Head(scraped_data)
             sku == paint.sku
             entry == [ brand |-> Str("Scale 75"),
                        brandData |-> NoBrandData,
                        hex |-> IF "hex" \in DOMAIN paint THEN paint.hex ELSE <<>>,
                        id |-> Str("scale75-") \o ReplaceChar(lower(sku), " ", "-"),
                        name |-> to_title_case(paint.name),
                        range |-> paint.range_name,
                        sku |-> sku,
                        type |-> paint.paint_type,
                        url |-> paint.product_url ]
         IN  IF ~Truthy(sku) \/ sku \in seen_skus
             THEN CatalogueLoop(Tail(scraped_data), seen_skus, catalogue)
             ELSE CatalogueLoop(Tail(scraped_data), seen_skus \cup {sku},
                                Append(catalogue, entry))

generate_catalogue(scraped_data) ==
    LET catalogue == CatalogueLoop(scraped_data, {}, <<>>)
    IN  SortedByKeys(catalogue, [i \in 1..Len(catalogue) |-> <<catalogue[i].sku>>])

(***************************************************************************)
(* Kimera, Turbodork and Scale75: one run of a scraper as a state machine. *)
(* The shop's answer is a batch of distinct products; a run ends with the  *)
(* catalog the scraper writes.                                             *)
(***************************************************************************)
Vendors == {"kimera", "turbodork", "scale75"}

\* title, handle, sku (of the first variant), img (the first image)
KimeraPool ==
    { [title |-> Str("The Red - Series 1"), handle |-> Str("the-red-series-1"),
       sku |-> Str("KM-PPS103"), img |-> SwatchImage],
      [title |-> Str("The Red - Series 2"), handle |-> Str("the-red-series-2"),
       sku |-> Str("KMP-03"), img |-> BrokenImage],
      [title |-> Str("Orange"), handle |-> Str("orange"),
       sku |-> Str("KM-PPS104"), img |-> NoImage],
      [title |-> Str("Pisarski Shadow"), handle |-> Str("pisarski-shadow"),
       sku |-> Str("KM-SSMP01"), img |-> BlankImage],
      [title |-> Str("Pure Pigments Set"), handle |-> Str("pure-pigments-set"),
       sku |-> Str("KM-PPS100"), img |-> SwatchImage],
      [title |-> Str("Satin Medium"), handle |-> Str("satin-medium"),
       sku |-> Str("KM-PPS114"), img |-> NoImage] }

\* title, handle, product_type, sku (of the first variant), img, tags
TurbodorkPool ==
    { [title |-> Str("Curacao"), handle |-> Str("curacao"),
       product_type |-> Str("TurboShift"), sku |-> Str("TDK4604_1"), img |-> SwatchImage,
       tags |-> <<Str("zeni:pink-gold"), Str("Tone:Cool")>>],
      [title |-> Str("Curacao"), handle |-> Str("curacao-1"),
       product_type |-> Str("Metallic"), sku |-> Str("TDK4604"), img |-> BrokenImage,
       tags |-> <<Str("tone:"), Str("Primer:black gloss"), Str("color:pink")>>],
      [title |-> Str("Six Shooter"), handle |-> Str("six-shooter"),
       product_type |-> <<>>, sku |-> Str("TDK015014"), img |-> NoImage,
       tags |-> <<Str("Colorshift"), Str("color:teal"), Str("color:purple")>>],
      [title |-> Str("Starter Bundle"), handle |-> Str("starter-bundle"),
       product_type |-> Str("Bundle"), sku |-> Str("TDK9"), img |-> SwatchImage,
       tags |-> <<>>] }

\* name, handle, sku, img
Scale75Pool ==
    { [name |-> Str("DECAY BLACK"), handle |-> Str("decay-black"),
       sku |-> Str("SC-01"), img |-> SwatchImage],
      [name |-> Str("Decay Black"), handle |-> Str("decay-black-2"),
       sku |-> Str("sc-01"), img |-> BrokenImage],
      [name |-> Str("INKTENSE WOOD"), handle |-> Str("inktense-wood"),
       sku |-> Str("SC 01"), img |-> NoImage],
      [name |-> Str("navy blue"), handle |-> Str("navy-blue"),
       sku |-> <<>>, img |-> SwatchImage],
      [name |-> Str("PETROLEUM GRAY"), handle |-> <<>>,
       sku |-> Str("SC-05"), img |-> BlankImage] }

VendorPool(v) ==
    IF v = "kimera" THEN KimeraPool ELSE IF v = "turbodork" THEN TurbodorkPool
    ELSE Scale75Pool

\* the range keys a run is called with; Kimera's scrape_all takes none
VendorRangeKeys(v) ==
    IF v = "kimera" THEN {""} ELSE IF v = "turbodork" THEN {"turboshift", "mediums"}
    ELSE {"instant-colors", "unknown"}

\* the orders in which as_completed can hand over n results
CompletionOrders(n, threaded) ==
    {order \in [1..n -> 1..n] :
        /\ \A i, j \in 1..n : order[i] = order[j] => i = j
        /\ ~threaded => \A i \in 1..n : order[i] = i}

\* a scraper is started
VendorCall(v, rk, sc, mw) ==
    /\ pc = "idle" /\ npc = "idle" /\ vpc = "idle"
    /\ vendor' = v /\ range_key' = rk /\ sample_colors' = sc /\ max_workers' = mw
    /\ vpc' = "collect"
    /\ UNCHANGED <<pc, all_products, next_task, running, paints, deduplicated_paints,
                   duplicates_removed, valid_paints, rejected, raw, catalog>>
    /\ UNCHANGED <<normVars, callVars, mainVars, walkVars>>

\* the shop lists one more product
VendorCollect(r) ==
    /\ vpc = "collect"
    /\ Len(raw) < MaxRecords
    /\ \A i \in 1..Len(raw) : raw[i] # r
    /\ raw' = Append(raw, r)
    /\ UNCHANGED <<vpc, vendor, catalog>>
    /\ UNCHANGED <<gswVars, normVars, callVars, mainVars, walkVars>>

\* Kimera: scrape_all and main
KimeraRun(order) ==
    /\ vpc = "collect" /\ vendor = "kimera"
    /\ LET paint_products == SelectSeq(raw, is_individual_paint)
       IN  /\ order \in CompletionOrders(Len(paint_products),
                                         sample_colors /\ max_workers > 1)
           /\ catalog' = kimera_catalog(
                  [i \in 1..Len(paint_products) |->
                      kimera_process_product(paint_products[order[i]], sample_colors)])
    /\ vpc' = "done"
    /\ UNCHANGED <<vendor, raw>>
    /\ UNCHANGED <<gswVars, normVars, callVars, mainVars, walkVars>>

\* Turbodork: scrape_range
TurbodorkRun(order) ==
    /\ vpc = "collect" /\ vendor = "turbodork"
    /\ order \in CompletionOrders(Len(SelectSeq(raw, turbodork_is_paint_product)),
                                  sample_colors /\ max_workers > 1)
    /\ catalog' = IF ~KnownRange(TURBODORK_RANGES, range_key) \/ raw = <<>> THEN <<>>
                  ELSE turbodork_catalog(raw, range_key, sample_colors, order)
    /\ vpc' = "done"
    /\ UNCHANGED <<vendor, raw>>
    /\ UNCHANGED <<gswVars, normVars, callVars, mainVars, walkVars>>

\* Scale75: scrape_range and generate_catalogue
Scale75Run ==
    /\ vpc = "collect" /\ vendor = "scale75"
    /\ catalog' = IF ~KnownRange(SCALE75_RANGES, range_key) THEN <<>>
                  ELSE generate_catalogue(
                           scale75_scrape_range(raw, range_key, sample_colors))
    /\ vpc' = "done"
    /\ UNCHANGED <<vendor, raw>>
    /\ UNCHANGED <<gswVars, normVars, callVars, mainVars, walkVars>>

NextVendor ==
    \/ \E v \in Vendors, sc \in BOOLEAN, mw \in WorkerCounts :
           \E rk \in VendorRangeKeys(v) : VendorCall(v, rk, sc, mw)
    \/ \E r \in VendorPool(vendor) : VendorCollect(r)
    \/ \E order \in UNION {[1..n -> 1..n] : n \in 0..MaxRecords} : KimeraRun(order)
    \/ \E order \in UNION {[1..n -> 1..n] : n \in 0..MaxRecords} : TurbodorkRun(order)
    \/ Scale75Run

SpecVendor == Init /\ [][NextVendor]_vars

(***************************************************************************)
(* Claims about the catalogs of every vendor.                              *)
(***************************************************************************)
\* "" or ^#[0-9A-F]{6}$
EmptyOrUpperHex(h) ==
    \/ h = <<>>
    \/ /\ Len(h) = 7 /\ h[1] = "#"
       /\ \A i \in 2..7 : \E d \in 1..16 : h[i] = HexDigits[d]

\* C4: every entry of a catalog that a run of Green Stuff World, Kimera,
\* Turbodork or Scale75 emits has a hex that is "" or # and six upper-case
\* hex digits, whether sampling succeeded, failed or was skipped
C4_HexEmptyOrUpperHex ==
    /\ pc = "done" => \A e \in Range(valid_paints) : EmptyOrUpperHex(e.hex)
    /\ vpc = "done" => \A e \in Range(catalog) : EmptyOrUpperHex(e.hex)

\* the URL a vendor's entry gets for the handle of a product
EntryUrl(v, handle) ==
    IF v = "kimera" THEN KIMERA_BASE_URL \o Str("/products/") \o handle
    ELSE IF v = "turbodork" THEN TURBODORK_BASE_URL \o Str("/products/") \o handle
    ELSE SCALE75_BASE_URL \o Str("/en/products/") \o handle

\* C5: when colours are sampled and the image of a product cannot be fetched
\* or decoded, the entry emitted for that product has the hex ""
C5_FailedImageGivesEmptyHex ==
    (vpc = "done" /\ sample_colors) =>
        \A r \in Range(raw) : \A e \in Range(catalog) :
            (/\ e.url = EntryUrl(vendor, r.handle) /\ e.sku # <<>>
             /\ Truthy(r.img.url) /\ r.img.fetch # "ok")
                => e.hex = <<>>

\* C6: no two entries of the catalog of one run have the same id
C6_IdsUnique ==
    vpc = "done" =>
        \A i, j \in 1..Len(catalog) : catalog[i].id = catalog[j].id => i = j

(***************************************************************************)
(* Claims about the dedup pass, the completion order and the sort.         *)
(***************************************************************************)
\* C11: the dedup pass applied to its own output returns that output: no
\* entry is removed, replaced or moved
C11_DedupIdempotent ==
    pc \in {"validate", "done"} =>
        /\ Deduplicate(deduplicated_paints).deduplicated_paints = deduplicated_paints
        /\ Deduplicate(deduplicated_paints).duplicates_removed = 0

\* C11 witness: the dedup pass removed a duplicate, put a later entry in the
\* place of the first one of its group, and left more than one entry
C11_Witness ==
    /\ pc = "done"
    /\ duplicates_removed >= 1
    /\ Len(deduplicated_paints) >= 2
    /\ \E i \in 1..Len(deduplicated_paints) :
           /\ \A j \in GroupFirsts(paints) : deduplicated_paints[i] # paints[j]
           /\ Deduplicate(deduplicated_paints).deduplicated_paints[i] = deduplicated_paints[i]

\* what scrape_range returns for products when every product is processed
\* in list order, as the sequential branch does
InOrderResult(products, rkey, do_sample) ==
    LET processed == [i \in 1..Len(products) |-> process_product(products[i], rkey, do_sample)]
    IN  ValidPaints(Deduplicate(SortByName(processed)).deduplicated_paints)

\* C12: for a fixed batch and fixed image results, scrape_range returns the
\* same sequence whatever the order in which the worker tasks complete, and
\* the same for max_workers = 1 and max_workers = N: the sequence it returns
\* is the one the in-order run returns
C12_ResultIndependentOfCompletionOrder ==
    (pc = "done" /\ all_products # <<>>) =>
        valid_paints = InOrderResult(all_products, range_key, sample_colors)

(***************************************************************************)
(* The four scrapers side by side: one run of one scraper at a time.       *)
(***************************************************************************)
NextAll ==
    \/ vpc = "idle" /\ Next
    \/ pc = "idle" /\ NextVendor

SpecAll == Init /\ [][NextAll]_vars

\* the number of positions of seq that hold e
CountOf(seq, e) == Cardinality({i \in 1..Len(seq) : seq[i] = e})

\* the entry Scale75 emits for a product scraped on its own
Scale75Alone(product) ==
    generate_catalogue(scale75_scrape_range(<<product>>, range_key, sample_colors))

\* C13: a failure on one record touches only that record.  Green Stuff
\* World: once the products are processed, each product has yielded the
\* entry it yields on its own, whatever happened to the images of the
\* others.  Scale75: each product that has a SKU no earlier product has is
\* in the catalogue with the entry it yields on its own.
C13_FailureTouchesOneRecord ==
    /\ (pc \in {"dedup", "validate", "done"} /\ all_products # <<>>) =>
           /\ Len(paints) = Len(all_products)
           /\ \A i \in 1..Len(all_products) :
                  LET e == process_product(all_products[i], range_key, sample_colors)
                  IN  CountOf(paints, e) =
                          Cardinality({j \in 1..Len(all_products) :
                              process_product(all_products[j], range_key, sample_colors) = e})
    /\ (vpc = "done" /\ vendor = "scale75" /\ KnownRange(SCALE75_RANGES, range_key)) =>
           \A i \in 1..Len(raw) :
               (raw[i].sku # <<>> /\ \A j \in 1..(i - 1) : raw[j].sku # raw[i].sku)
                   => Scale75Alone(raw[i])[1] \in Range(catalog)

\* C13 witness: a Green Stuff World run came to its end although the image
\* of one product could not be fetched, and a sibling has its sampled hex
C13_Witness ==
    /\ pc = "done" /\ sample_colors
    /\ \E i, j \in 1..Len(all_products) :
           /\ all_products[i].img = BrokenImage
           /\ all_products[j].img = SwatchImage
           /\ \E e \in Range(paints) :
                  /\ e.id = Str("gsw-") \o all_products[j].id
                  /\ e.hex = Str("#112233")
           /\ \E e \in Range(paints) :
                  /\ e.id = Str("gsw-") \o all_products[i].id
                  /\ e.hex = <<>>

(***************************************************************************)
(* Functions called on their own: one call of one function on one input,   *)
(* and its return value.                                                   *)
(***************************************************************************)
MaxWords == 2

\* the phrases made of at most MaxWords of the given words
PhrasesOf(words) ==
    { Join(ws) : ws \in UNION { [1..n -> { Str(w) : w \in words }] : n \in 0..MaxWords } }

ProductTitleWords ==
    {"Dry Brush -", "Crackle Paint", "Red", "Set", "Sunset", "Display Rack", "Paint Brush"}

ProductUrls ==
    { None, GoodUrl, Str("https://www.greenstuffworld.com/en/paint-rack.html") }

\* products as extract_products_from_page hands them to is_paint_product
ListedProducts ==
    { [title |-> t, url |-> u] : t \in PhrasesOf(ProductTitleWords) \cup {None},
                                 u \in ProductUrls }

TypeTitleWords == {"Gold", "Wash", "Ink", "Dipping Ink", "Red", "Glaze", "Primer"}

\* the default types of the configured ranges
GswDefaultTypes == { GSW_RANGES[r].type : r \in DOMAIN GSW_RANGES }

Scale75DefaultTypes == { SCALE75_RANGES[i][2].type : i \in 1..Len(SCALE75_RANGES) }

\* a title and the default type of a configured range
TypedTitles(defaults) ==
    { [name |-> t, default_type |-> d] : t \in PhrasesOf(TypeTitleWords), d \in defaults }

\* a listed product, a configured range and the sampling switch
TurbodorkCalls ==
    { [product |-> p, range_info |-> TURBODORK_RANGES[i][2], sample_colors |-> sc] :
          p \in TurbodorkPool, i \in 1..Len(TURBODORK_RANGES), sc \in BOOLEAN }

KimeraCalls ==
    { [product |-> p, sample_colors |-> sc] : p \in KimeraPool, sc \in BOOLEAN }

MaxPoints == 3

SampleColors ==
    { White, <<5, 5, 5>>, <<17, 34, 51>>, <<200, 30, 30>>, <<30, 200, 30>>, <<128, 128, 128>> }

\* the images of a layout of n sample points: the neighbourhoods of the first
\* MaxPoints points hold any of SampleColors, the others are background; the
\* pixel at the centre and the pixel below it differ
ImagesOf(n) ==
    { [url |-> Str("https://cdn.example.com/d.png"), fetch |-> "ok",
       regions |-> [i \in 1..n |-> IF i <= MaxPoints THEN f[i] ELSE White],
       size |-> ImageSize, pixel |-> Pixels(<<250, 251, 252>>, <<9, 8, 7>>),
       fetch2 |-> "fail", secondary |-> <<>>] : f \in [1..MaxPoints -> SampleColors] }

\* the images of the second download: the neighbourhoods of the first
\* MaxPoints of the four off-centre points hold any of SampleColors
SecondaryImages ==
    { [url |-> Str("https://cdn.example.com/e.png"), fetch |-> "ok",
       regions |-> SwatchImage.regions,
       size |-> ImageSize, pixel |-> Pixels(White, White),
       fetch2 |-> "ok",
       secondary |-> [i \in 1..4 |-> IF i <= MaxPoints THEN f[i] ELSE White]] :
          f \in [1..MaxPoints -> SampleColors] }

\* images of colour-shift swatches: one paint-coloured region in the first
\* download, which may fail, and any of SampleColors at the first off-centre
\* point of the second
ShiftImages ==
    { [url |-> Str("https://cdn.example.com/s.png"), fetch |-> fe,
       regions |-> <<White, c1, White, White, White, White, White, White>>,
       size |-> ImageSize, pixel |-> Pixels(c1, c1),
       fetch2 |-> "ok", secondary |-> <<c2, White, White, White>>] :
          fe \in {"ok", "fail"}, c1 \in {<<17, 34, 51>>, <<128, 128, 128>>},
          c2 \in SampleColors }

\* a product of Green Stuff World, a range and the sampling switch
GswShiftCalls ==
    { [product |-> [id |-> Str("201"), title |-> Str("Red"), sku |-> GoodSku,
                    url |-> GoodUrl, img |-> im],
       range_key |-> rk, sample_colors |-> sc] :
          im \in ShiftImages, rk \in {"chameleon", "acrylic"}, sc \in BOOLEAN }

\* a product of Turbodork, the first range and the sampling switch
TurbodorkShiftCalls ==
    { [product |-> [title |-> Str("Curacao"), handle |-> Str("curacao"),
                    product_type |-> pt, sku |-> Str("TDK4604"), img |-> im,
                    tags |-> <<>>],
       range_info |-> TURBODORK_RANGES[2][2], sample_colors |-> sc] :
          im \in ShiftImages, pt \in {Str("TurboShift"), Str("Metallic")},
          sc \in BOOLEAN }

\* the values of a channel of an averaged colour
ChannelLevels == {0, 64, 127, 128, 192, 255}

\* two averaged colours of the same brightness
EqualBrightnessPairs ==
    { w \in (ChannelLevels \X ChannelLevels \X ChannelLevels)
                \X (ChannelLevels \X ChannelLevels \X ChannelLevels) :
          Sum3(w[1]) = Sum3(w[2]) }

\* score - 0.1 of the two colours in units of 1/1270, each as numerator and
\* denominator
score_pair(w) ==
    << <<ScoreNum(w[1]), ScoreDen(w[1])>>, <<ScoreNum(w[2]), ScoreDen(w[2])>> >>

\* entries as process_product builds them: names that differ in case only,
\* with and without a hex, and an entry validate_paint has an issue with
PassEntries ==
    { [GoodEntry EXCEPT !.id = Str("gsw-301"), !.name = Str("Bone White"), !.hex = <<>>],
      [GoodEntry EXCEPT !.id = Str("gsw-302"), !.name = Str("bone white")],
      [GoodEntry EXCEPT !.id = Str("gsw-303"), !.name = Str("Bone White"),
                        !.hex = Str("#445566")],
      [GoodEntry EXCEPT !.id = Str("gsw-304"), !.name = Str("Abyss Blue")],
      [GoodEntry EXCEPT !.id = Str("gsw-305"), !.name = Str("ABYSS BLUE"), !.hex = <<>>,
                        !.sku = <<>>],
      [GoodEntry EXCEPT !.id = Str("gsw-306"), !.name = Str("Crimson"), !.hex = <<>>] }

\* the entries of a batch in the order the workers completed them
Batches == UNION { [1..n -> PassEntries] : n \in 0..MaxEntries }

\* scrape_range from the sort on: the sort, the dedup pass and the
\* validation pass; the dedup state and the returned entries
scrape_range_passes(entries) ==
    LET st == Deduplicate(SortByName(entries))
    IN  [ deduplicated_paints |-> st.deduplicated_paints,
          duplicates_removed |-> st.duplicates_removed,
          valid_paints |-> ValidPaints(st.deduplicated_paints) ]

\* the number of points of sample_regions: Green Stuff World, Turbodork
\* swatch, Kimera swatch, Scale75
LayoutPoints(f) ==
    CASE f = "sample_color_from_image" -> 8
      [] f = "turbodork_sample_color_from_image" -> 5
      [] f = "kimera_sample_color_from_image" -> 5
      [] f = "scale75_sample_color_from_image" -> 9

Samplers ==
    {"sample_color_from_image", "turbodork_sample_color_from_image",
     "kimera_sample_color_from_image", "scale75_sample_color_from_image"}

Functions ==
    {"is_paint_product", "get_paint_type", "scale75_get_paint_type",
     "turbodork_process_product", "kimera_process_product",
     "sample_secondary_color", "process_product", "score",
     "scrape_range_passes"} \cup Samplers

Inputs(f) ==
    CASE f = "is_paint_product" -> ListedProducts
      [] f = "get_paint_type" -> TypedTitles(GswDefaultTypes)
      [] f = "scale75_get_paint_type" -> TypedTitles(Scale75DefaultTypes)
      [] f = "turbodork_process_product" -> TurbodorkCalls \cup TurbodorkShiftCalls
      [] f = "process_product" -> GswShiftCalls
      [] f = "score" -> EqualBrightnessPairs
      [] f = "scrape_range_passes" -> Batches
      [] f = "kimera_process_product" -> KimeraCalls
      [] f = "sample_secondary_color" -> SecondaryImages
      [] f \in Samplers -> ImagesOf(LayoutPoints(f))

Apply(f, a) ==
    CASE f = "is_paint_product" -> is_paint_product(a)
      [] f = "get_paint_type" -> get_paint_type(a.name, a.default_type)
      [] f = "scale75_get_paint_type" -> scale75_get_paint_type(a.name, a.default_type)
      [] f = "turbodork_process_product" ->
             turbodork_process_product(a.product, a.range_info, a.sample_colors)
      [] f = "kimera_process_product" -> kimera_process_product(a.product, a.sample_colors)
      [] f = "sample_secondary_color" -> sample_secondary_color(a)
      [] f = "score" -> score_pair(a)
      [] f = "scrape_range_passes" -> scrape_range_passes(a)
      [] f = "process_product" -> process_product(a.product, a.range_key, a.sample_colors)
      [] f = "sample_color_from_image" -> sample_color_from_image(a)
      [] f = "turbodork_sample_color_from_image" -> turbodork_sample_color_from_image(a)
      [] f = "kimera_sample_color_from_image" -> kimera_sample_color_from_image(a)
      [] f = "scale75_sample_color_from_image" -> scale75_sample_color_from_image(a)

Invoke(f, a) ==
    /\ pc = "idle" /\ npc = "idle" /\ vpc = "idle"
    /\ fn = ""
    /\ fn' = f
    /\ arg' = a
    /\ out' = <<>>
    /\ UNCHANGED <<gswVars, normVars, vendorVars, mainVars, walkVars>>

Return ==
    /\ fn # ""
    /\ out = <<>>
    /\ out' = <<Apply(fn, arg)>>
    /\ UNCHANGED <<fn, arg, gswVars, normVars, vendorVars, mainVars, walkVars>>

NextCall ==
    \/ \E f \in Functions : \E a \in Inputs(f) : Invoke(f, a)
    \/ Return

SpecCall == Init /\ [][NextCall]_vars

\* the call of f has returned
Returned(f) == fn = f /\ out # <<>>

\* C14: is_paint_product answers true when an include-override phrase occurs
\* in the lower-cased title, even when an exclusion keyword occurs in the
\* title or the URL; otherwise false when an exclusion keyword occurs in the
\* lower-cased title or URL; otherwise true.
HasOverride(product) ==
    \E o \in INCLUDE_OVERRIDES : contains(lower(OrEmpty(product.title)), Str(o))

HasExclusion(product) ==
    \E k \in EXCLUDE_KEYWORDS :
        \/ contains(lower(OrEmpty(product.title)), Str(k))
        \/ contains(lower(OrEmpty(product.url)), Str(k))

C14_OverrideThenExclusion ==
    Returned("is_paint_product") =>
        /\ HasOverride(arg) => out[1] = TRUE
        /\ (~HasOverride(arg) /\ HasExclusion(arg)) => out[1] = FALSE
        /\ (~HasOverride(arg) /\ ~HasExclusion(arg)) => out[1] = TRUE

C14_Witness ==
    /\ Returned("is_paint_product")
    /\ HasOverride(arg)
    /\ \E k \in EXCLUDE_KEYWORDS : contains(lower(OrEmpty(arg.title)), Str(k))
    /\ \E k \in EXCLUDE_KEYWORDS : contains(lower(OrEmpty(arg.url)), Str(k))
    /\ out[1] = TRUE

\* the (keyword, type) pairs of TYPE_PATTERNS in table order
PatternPairs ==
    Flatten([i \in 1..Len(TYPE_PATTERNS) |->
                [k \in 1..Len(TYPE_PATTERNS[i][2]) |->
                    <<TYPE_PATTERNS[i][2][k], TYPE_PATTERNS[i][1]>>]])

\* the positions in text where keyword starts
Occurrences(text, keyword) ==
    { p \in 1..Len(text) : p + Len(keyword) - 1 <= Len(text)
                           /\ SubSeq(text, p, p + Len(keyword) - 1) = keyword }

\* the pairs whose keyword occurs in text
MatchingPairs(pairs, text) ==
    { i \in 1..Len(pairs) : Occurrences(text, pairs[i][1]) # {} }

\* the type of the first pair, in table order, whose keyword occurs in the
\* lower-cased name, or the default type
FirstPairType(pairs, a) ==
    LET hits == MatchingPairs(pairs, lower(a.name))
    IN  IF hits = {} THEN a.default_type
        ELSE pairs[CHOOSE i \in hits : \A j \in hits : i <= j][2]

\* C15: get_paint_type returns the type of the first (keyword, type) pair, in
\* table order, whose keyword is a substring of the lower-cased title,
\* wherever the keywords occur in the title, and the range's default type
\* when no keyword matches.
C15_FirstKeywordInTableOrder ==
    /\ Returned("get_paint_type") => out[1] = FirstPairType(PatternPairs, arg)
    /\ Returned("scale75_get_paint_type") => out[1] = FirstPairType(TYPE_OVERRIDES, arg)

\* a title in which the winning keyword occurs after a keyword of a later
\* pair of another type
C15_Witness ==
       /\ Returned("get_paint_type")
       /\ \E i, j \in MatchingPairs(PatternPairs, lower(arg.name)) :
              /\ \A h \in MatchingPairs(PatternPairs, lower(arg.name)) : i <= h
              /\ i < j
              /\ PatternPairs[i][2] # PatternPairs[j][2]
              /\ \A p \in Occurrences(lower(arg.name), PatternPairs[i][1]) :
                     \A q \in Occurrences(lower(arg.name), PatternPairs[j][1]) : q < p
       /\ out[1] = Str("metallic")
       /\ arg.default_type = Str("opaque")

\* the brightness band of a sampler, as <<dark, bright>>
Band(f) ==
    IF f \in {"sample_color_from_image", "turbodork_sample_color_from_image"}
    THEN <<15, 240>> ELSE <<10, 245>>

\* the points of the layout whose averaged brightness lies inside the band
AcceptedPoints(f, img) ==
    { i \in 1..Len(img.regions) : /\ Sum3(img.regions[i]) >= 3 * Band(f)[1]
                                  /\ Sum3(img.regions[i]) <= 3 * Band(f)[2] }

\* score(c) <= score(d), for score = saturation * (1 - 0.3 * |brightness - 127| / 127) + 0.1
\* with saturation = (max - min) / max(max, 1) and brightness = (r + g + b) / 3
ScoreAtMost(c, d) ==
    (Max3(c) - Min3(c)) * (1270 - Abs(Sum3(c) - 381)) * (IF Max3(d) > 1 THEN Max3(d) ELSE 1)
        <= (Max3(d) - Min3(d)) * (1270 - Abs(Sum3(d) - 381)) * (IF Max3(c) > 1 THEN Max3(c) ELSE 1)

IsUpperHex(h) ==
    /\ Len(h) = 7
    /\ h[1] = "#"
    /\ \A i \in 2..7 : h[i] \in DigitSet \cup {"A", "B", "C", "D", "E", "F"}

\* C16: when at least one layout point is accepted, the primary sampler
\* returns the averaged colour of an accepted point whose score is maximal
\* over the accepted points, as #RRGGBB in upper case, and never the colour
\* of a rejected point.
C16_BestAcceptedPoint ==
    \A f \in {"sample_color_from_image", "turbodork_sample_color_from_image"} :
        (Returned(f) /\ AcceptedPoints(f, arg) # {}) =>
            /\ IsUpperHex(out[1])
            /\ \E i \in AcceptedPoints(f, arg) :
                   /\ out[1] = FormatHex(arg.regions[i])
                   /\ \A j \in AcceptedPoints(f, arg) :
                          ScoreAtMost(arg.regions[j], arg.regions[i])
            /\ \A i \in 1..Len(arg.regions) :
                   i \notin AcceptedPoints(f, arg) => out[1] # FormatHex(arg.regions[i])

\* a rejected point, and the point of the highest score between two points
\* of lower score
C16_Witness ==
    /\ Returned("sample_color_from_image")
    /\ \E i, j \in AcceptedPoints("sample_color_from_image", arg) :
           /\ i < j
           /\ ~ScoreAtMost(arg.regions[j], arg.regions[i])
           /\ out[1] = FormatHex(arg.regions[j])
    /\ \E i, j \in AcceptedPoints("sample_color_from_image", arg) :
           /\ i < j
           /\ ~ScoreAtMost(arg.regions[i], arg.regions[j])
           /\ out[1] = FormatHex(arg.regions[i])
    /\ \E i \in 1..Len(arg.regions) : i \notin AcceptedPoints("sample_color_from_image", arg)

\* C17: when every layout point is rejected, the primary sampler of every
\* vendor returns the colour of the single pixel at the geometric centre of
\* the image (x = width / 2, y = height / 2), unscored and whatever its
\* brightness.
C17_FallbackIsCentrePixel ==
    \A f \in Samplers :
        (Returned(f) /\ AcceptedPoints(f, arg) = {}) =>
            out[1] = FormatHex(arg.pixel[<<arg.size[1] \div 2, arg.size[2] \div 2>>])

NonDecreasingByName(entries) ==
    \A i \in 1..(Len(entries) - 1) :
        ~StrLess(lower(entries[i + 1].name), lower(entries[i].name))

\* the entries of a sequence whose lower-cased name is k, in their order
WithName(entries, k) == SelectSeq(entries, LAMBDA e : lower(e.name) = k)

\* after holds the entries of before in non-decreasing order of lower-cased
\* name, those of equal lower-cased name in the order they have in before
StableSortedByName(before, after) ==
    /\ Len(after) = Len(before)
    /\ NonDecreasingByName(after)
    /\ \A k \in {lower(before[i].name) : i \in 1..Len(before)}
                \cup {lower(after[i].name) : i \in 1..Len(after)} :
           WithName(before, k) = WithName(after, k)

\* the entries Turbodork's scrape_range has before its sort
TurbodorkPaints(order) ==
    LET kept == SelectSeq(raw, turbodork_is_paint_product)
    IN  [i \in 1..Len(kept) |->
            turbodork_process_product(kept[order[i]],
                                      RangeInfo(TURBODORK_RANGES, range_key), sample_colors)]

\* the entries Kimera's scrape_all has before it groups them by range
KimeraPaints(order) ==
    LET paint_products == SelectSeq(raw, is_individual_paint)
    IN  [i \in 1..Len(paint_products) |->
            kimera_process_product(paint_products[order[i]], sample_colors)]

\* C18: the sequence scrape_range returns (Green Stuff World, Turbodork) and
\* each per-range list of Kimera's scrape_all are in non-decreasing order of
\* lower-cased name, and entries of equal lower-cased name keep the relative
\* order they had before the sort.
C18_SortedByLowerNameStable ==
    [][ /\ (pc = "process" /\ pc' = "dedup") => StableSortedByName(paints, paints')
        /\ pc' = "done" => NonDecreasingByName(valid_paints')
        /\ (vpc = "collect" /\ vpc' = "done" /\ vendor = "turbodork" /\ catalog' # <<>>) =>
               \E order \in CompletionOrders(Len(catalog'), sample_colors /\ max_workers > 1) :
                   StableSortedByName(TurbodorkPaints(order), catalog')
        /\ (vpc = "collect" /\ vpc' = "done" /\ vendor = "kimera") =>
               \E order \in CompletionOrders(Len(catalog'), sample_colors /\ max_workers > 1) :
                   /\ catalog' = kimera_catalog(KimeraPaints(order))
                   /\ \A k \in 1..Len(kimera_ranges(KimeraPaints(order))) :
                          StableSortedByName(
                              SelectSeq(KimeraPaints(order),
                                        LAMBDA p : slugify(p.range)
                                            = slugify(kimera_ranges(KimeraPaints(order))[k][1].range)),
                              kimera_ranges(KimeraPaints(order))[k])
      ]_vars

\* a single-threaded Turbodork run returns two entries of equal lower-cased
\* name in the order of the listing
C18_Witness ==
    /\ vpc = "done" /\ vendor = "turbodork" /\ max_workers = 1
    /\ Len(catalog) = 2
    /\ lower(catalog[1].name) = lower(catalog[2].name)
    /\ catalog[1] # catalog[2]
    /\ catalog = TurbodorkPaints(<<1, 2>>)

BoolAttrs == {"colorShift", "uvReactive", "transparent", "glowInDark", "singlePigment"}

StrAttrs == {"pigmentCode", "artist", "tone", "secondaryHex", "shiftColors", "recommendedBasecoat"}

\* every attribute of a brandData mapping is true or a non-empty string
AttributesSet(bd) ==
    \A k \in DOMAIN bd :
        IF k \in BoolAttrs THEN bd[k] = TRUE
        ELSE k \in StrAttrs /\ bd[k] # None /\ bd[k] # <<>>

HasAny(text, keywords) == \E k \in keywords : contains(lower(text), Str(k))

\* the attributes of a Green Stuff World entry whose trigger did not fire on
\* the title of the product and the range key are absent
GswTriggersFired(e) ==
    \E i \in 1..Len(all_products) :
        /\ e.id = Str("gsw-") \o all_products[i].id
        /\ "colorShift" \in DOMAIN e.brandData =>
               range_key = "chameleon" \/ HasAny(all_products[i].title, {"chameleon", "colorshift"})
        /\ "uvReactive" \in DOMAIN e.brandData =>
               range_key = "fluor" \/ HasAny(all_products[i].title, {"fluor", "uv", "neon"})
        /\ "transparent" \in DOMAIN e.brandData =>
               HasAny(all_products[i].title, {"candy", "transparent"})
        /\ "glowInDark" \in DOMAIN e.brandData => HasAny(all_products[i].title, {"glow"})
        /\ "secondaryHex" \in DOMAIN e.brandData =>
               "colorShift" \in DOMAIN e.brandData /\ sample_colors
        /\ DOMAIN e.brandData \subseteq
               {"colorShift", "uvReactive", "transparent", "glowInDark", "secondaryHex"}

KimeraTriggersFired(e) ==
    /\ "pigmentCode" \in DOMAIN e.brandData <=> "singlePigment" \in DOMAIN e.brandData
    /\ "pigmentCode" \in DOMAIN e.brandData =>
           \E k \in 1..Len(PIGMENT_CODES) :
               /\ PIGMENT_CODES[k][1] = strip(lower(e.name))
               /\ PIGMENT_CODES[k][2] = e.brandData["pigmentCode"]
    /\ "artist" \in DOMAIN e.brandData =>
           \E k \in 1..Len(SIGNATURE_ARTISTS) :
               /\ startswith(lower(e.name), SIGNATURE_ARTISTS[k][1])
               /\ SIGNATURE_ARTISTS[k][2] = e.brandData["artist"]
    /\ DOMAIN e.brandData \subseteq {"pigmentCode", "singlePigment", "artist"}

\* a tag that starts with the prefix, whatever the case, and goes on after it
TagWith(tags, prefix) ==
    \E i \in 1..Len(tags) :
        startswith(lower(tags[i]), Str(prefix)) /\ Len(tags[i]) > Len(Str(prefix))

TurbodorkTriggersFired(e) ==
    \E i \in 1..Len(raw) :
        /\ e.url = TURBODORK_BASE_URL \o Str("/products/") \o raw[i].handle
        /\ "secondaryHex" \in DOMAIN e.brandData =>
               "colorShift" \in DOMAIN e.brandData /\ sample_colors
        /\ "shiftColors" \in DOMAIN e.brandData =>
               /\ "colorShift" \in DOMAIN e.brandData
               /\ TagWith(raw[i].tags, "zeni:") \/ TagWith(raw[i].tags, "color:")
        /\ "tone" \in DOMAIN e.brandData => TagWith(raw[i].tags, "tone:")
        /\ "recommendedBasecoat" \in DOMAIN e.brandData => TagWith(raw[i].tags, "primer:")
        /\ DOMAIN e.brandData \subseteq
               {"colorShift", "secondaryHex", "shiftColors", "tone", "recommendedBasecoat"}

\* C19: in every emitted entry brandData holds an attribute only when its
\* trigger fired; an attribute that is present is true (colorShift,
\* uvReactive, transparent, glowInDark, singlePigment) or a non-empty string
\* (pigmentCode, artist, tone, secondaryHex), never false or null.
C19_BrandDataOnlyDetected ==
    /\ pc = "done" =>
           \A i \in 1..Len(valid_paints) :
               /\ AttributesSet(valid_paints[i].brandData)
               /\ GswTriggersFired(valid_paints[i])
    /\ vpc = "done" =>
           \A i \in 1..Len(catalog) :
               /\ AttributesSet(catalog[i].brandData)
               /\ vendor = "kimera" => KimeraTriggersFired(catalog[i])
               /\ vendor = "turbodork" => TurbodorkTriggersFired(catalog[i])
               /\ vendor = "scale75" => DOMAIN catalog[i].brandData = {}

\* Kimera emits a paint with a known pigment code next to the medium, whose
\* code in the table is None
C19_Witness ==
    /\ vpc = "done" /\ vendor = "kimera"
    /\ \E i, j \in 1..Len(catalog) :
           /\ DOMAIN catalog[i].brandData = {"pigmentCode", "singlePigment"}
           /\ catalog[j].name = Str("Satin Medium")
           /\ DOMAIN catalog[j].brandData = {}

ClosedTypes ==
    { Str(ty) : ty \in {"opaque", "metallic", "wash", "contrast", "ink", "fluorescent",
                        "transparent", "primer", "varnish", "technical", "air", "medium"} }

\* C20: every emitted entry has a type of the closed set opaque, metallic,
\* wash, contrast, ink, fluorescent, transparent, primer, varnish, technical,
\* air, medium, for every title and every default type of a configured range.
C20_TypeInClosedSet ==
    /\ Returned("get_paint_type") => out[1] \in ClosedTypes
    /\ Returned("scale75_get_paint_type") => out[1] \in ClosedTypes
    /\ Returned("turbodork_process_product") => out[1].type \in ClosedTypes
    /\ Returned("kimera_process_product") => out[1].type \in ClosedTypes

\* a title with a keyword in a range of another default type, whose type is
\* the one of the keyword
C20_Witness ==
    /\ Returned("get_paint_type")
    /\ arg.default_type = Str("air")
    /\ contains(lower(arg.name), Str("dipping ink"))
    /\ out[1] = Str("contrast")

(***************************************************************************)
(* Green Stuff World: main with --range, run after run.  The output files  *)
(* stay on disk from one run to the next; a run is main or a call of       *)
(* scrape_range on its own with a range key that is not configured.        *)
(***************************************************************************)
RANGE_TO_FILE ==
    [acrylic     |-> "gsw_acrylic.json",
     military    |-> "gsw_military.json",
     metallic    |-> "gsw_metallic.json",
     chameleon   |-> "gsw_chameleon.json",
     chrome      |-> "gsw_chrome.json",
     fluor       |-> "gsw_fluor.json",
     dipping_ink |-> "gsw_dipping_ink.json",
     acrylic_ink |-> "gsw_acrylic_ink.json",
     dry_brush   |-> "gsw_dry_brush.json",
     opaque      |-> "gsw_opaque.json",
     effect      |-> "gsw_effect.json",
     crackle     |-> "gsw_crackle.json",
     airbrush    |-> "gsw_airbrush.json"]

\* main is started with --range rk; an unknown range returns at once
MainStart(rk) ==
    /\ mpc = "idle" /\ pc = "idle" /\ npc = "idle" /\ vpc = "idle" /\ fn = ""
    /\ main_range' = rk
    /\ mpc' = IF rk \in DOMAIN GSW_RANGES THEN "scrape" ELSE "returned"
    /\ UNCHANGED <<files, fetched>>
    /\ UNCHANGED <<gswVars, normVars, vendorVars, callVars, walkVars>>

\* main calls scrape_range
MainScrape ==
    /\ mpc = "scrape"
    /\ Call(main_range, TRUE, 1)

\* scrape_range is called without main
DirectCall(rk) ==
    /\ mpc = "idle" /\ npc = "idle" /\ vpc = "idle" /\ fn = ""
    /\ Call(rk, TRUE, 1)

\* main writes what scrape_range returned to the file of the range
MainWrite ==
    /\ mpc = "scrape" /\ pc = "done"
    /\ files' = (RANGE_TO_FILE[main_range] :> valid_paints) @@ files
    /\ mpc' = "returned"
    /\ UNCHANGED <<main_range, fetched>>
    /\ UNCHANGED <<gswVars, normVars, vendorVars, callVars, walkVars>>

\* the run ends; the next one starts afresh with the files left on disk
Exit ==
    /\ mpc = "returned" \/ (mpc = "idle" /\ pc = "done")
    /\ mpc' = "idle" /\ main_range' = "" /\ fetched' = FALSE
    /\ pc' = "idle"
    /\ range_key' = "" /\ sample_colors' = FALSE /\ max_workers' = 0
    /\ all_products' = <<>> /\ next_task' = 0 /\ running' = {}
    /\ paints' = <<>> /\ deduplicated_paints' = <<>> /\ duplicates_removed' = 0
    /\ valid_paints' = <<>> /\ rejected' = <<>>
    /\ UNCHANGED files
    /\ UNCHANGED <<normVars, vendorVars, callVars, walkVars>>

NextMain ==
    \/ \E rk \in RangeKeys : MainStart(rk)
    \/ MainScrape
    \/ \E rk \in RangeKeys \ DOMAIN GSW_RANGES : DirectCall(rk)
    \/ \E p \in ProductPool : Collect(p)
    \/ EndCollect
    \/ ProcessNext
    \/ SortPaints
    \/ DedupPass
    \/ ValidatePass
    \/ MainWrite
    \/ Exit

SpecMain == Init /\ [][NextMain]_vars

\* a request for a range key that is not configured is being served or has
\* been served
UnknownRequest ==
    \/ mpc # "idle" /\ main_range \notin DOMAIN GSW_RANGES
    \/ pc # "idle" /\ range_key \notin DOMAIN GSW_RANGES

\* C21: a request for an unknown range key fails only that request:
\* scrape_range returns no entries and fetches nothing, main writes no
\* output file for it, and the files of the batches completed before are
\* left as they are.
C21_UnknownRangeFailsAlone ==
    /\ [](UnknownRequest =>
              /\ ~fetched
              /\ all_products = <<>> /\ paints = <<>> /\ valid_paints = <<>>
              /\ mpc # "scrape")
    /\ [][UnknownRequest' => files' = files]_vars

\* main has returned from an unknown range while the file of a batch
\* completed before holds an entry
C21_Witness ==
    /\ mpc = "returned"
    /\ main_range \notin DOMAIN GSW_RANGES
    /\ "gsw_chameleon.json" \in DOMAIN files
    /\ files["gsw_chameleon.json"] # <<>>

\* the off-centre points whose averaged brightness b satisfies 20 < b < 235
QualifyingPoints(img) ==
    { i \in 1..Len(img.secondary) :
          Sum3(img.secondary[i]) > 60 /\ Sum3(img.secondary[i]) < 705 }

\* C22: secondary-colour sampling walks the off-centre points in order and
\* reports the averaged colour of the first point that is accepted, so that a
\* rejected first point does not keep a later accepted point from being
\* reported; it reports nothing only when no point qualifies.
C22_FirstAcceptedSecondaryPoint ==
    Returned("sample_secondary_color") =>
        IF QualifyingPoints(arg) = {} THEN out[1] = None
        ELSE out[1] = FormatHex(arg.secondary[
                          CHOOSE i \in QualifyingPoints(arg) :
                              \A j \in QualifyingPoints(arg) : i <= j])

\* an entry holding secondaryHex is colour-shift, has a primary hex that
\* the secondary differs from, and the secondary is neither dark nor bright
SecondaryHexJustified(e) ==
    "secondaryHex" \in DOMAIN e.brandData =>
        /\ "colorShift" \in DOMAIN e.brandData /\ e.brandData["colorShift"] = TRUE
        /\ e.hex # <<>>
        /\ e.brandData["secondaryHex"] # e.hex
        /\ Sum3(ParseHex(e.brandData["secondaryHex"])) > 20 * 3
        /\ Sum3(ParseHex(e.brandData["secondaryHex"])) < 235 * 3

\* C23: brandData.secondaryHex is present only if the entry is colour-shift,
\* its primary hex is non-empty, the secondary differs from the primary hex
\* and the mean brightness b of the secondary satisfies 20 < b < 235.
C23_SecondaryHexOnlyWhenJustified ==
    (Returned("process_product") \/ Returned("turbodork_process_product")) =>
        SecondaryHexJustified(out[1])

\* a colour-shift product of Green Stuff World gets a secondary hex
C23_Witness ==
    /\ Returned("process_product")
    /\ "secondaryHex" \in DOMAIN out[1].brandData
    /\ out[1].brandData["secondaryHex"] = Str("#808080")
    /\ out[1].hex = Str("#112233")

\* saturation = (max_c - min_c) / max(max_c, 1) of a is at least that of b
SaturationAtLeast(a, b) ==
    (Max3(a) - Min3(a)) * ScoreDen(b) >= (Max3(b) - Min3(b)) * ScoreDen(a)

\* C24: the sampler's score is monotone in saturation at fixed brightness:
\* of two colours of equal brightness, the one whose saturation is at least
\* the other's has a score at least the other's.
C24_ScoreMonotoneInSaturation ==
    (Returned("score") /\ SaturationAtLeast(arg[1], arg[2])) =>
        out[1][1][1] * out[1][2][2] >= out[1][2][1] * out[1][1][2]

\* a saturated and a grey colour of the same dark brightness are scored
C24_Witness ==
    /\ Returned("score")
    /\ arg = <<<<0, 64, 128>>, <<64, 64, 64>>>>
    /\ out[1][1][1] > 0 /\ out[1][2][1] = 0

\* some submitted task has not finished: a product waits for a worker or a
\* worker is processing one
TaskPending == next_task <= Len(all_products) \/ running # {}

\* C25: within one batch the sort and the dedup start only after every
\* submitted worker task has finished; no entry is sorted, deduplicated or
\* validated while a task is still running.
C25_SortAfterAllTasks ==
    /\ [](pc \in {"dedup", "validate"} => ~TaskPending)
    /\ []((pc = "done" /\ all_products # <<>>) => ~TaskPending)
    /\ [][(pc = "process" /\ pc' # "process") =>
              /\ ~TaskPending
              /\ Len(paints) = Len(all_products)
              /\ pc' = "dedup"]_vars
    /\ [][TaskPending =>
              /\ deduplicated_paints' = deduplicated_paints
              /\ valid_paints' = valid_paints
              /\ rejected' = rejected]_vars

\* a batch of two products processed by two workers reaches the dedup pass
C25_Witness ==
    /\ pc = "dedup" /\ sample_colors /\ max_workers > 1
    /\ Len(all_products) = 2 /\ Len(paints) = 2
    /\ paints[1].id = Str("gsw-") \o all_products[2].id
    /\ running = {}

DesignOrder(entries) ==
    SortByName(ValidPaints(Deduplicate(entries).deduplicated_paints))

\* C27: the order of the code (stable sort by lower-cased name, then dedup,
\* then validation) gives the same final sequence as the order of the
\* design (dedup, validation, then stable sort), for every input sequence.
C27_CodeOrderEqualsDesignOrder ==
    Returned("scrape_range_passes") => out[1].valid_paints = DesignOrder(arg)

\* a batch out of order with a group whose first entry has no hex and an
\* entry the validation drops
C27_Witness ==
    /\ Returned("scrape_range_passes")
    /\ Len(arg) = 3
    /\ arg[1].id = Str("gsw-301") /\ arg[2].id = Str("gsw-305") /\ arg[3].id = Str("gsw-302")
    /\ Len(out[1].valid_paints) = 1
    /\ out[1].valid_paints[1].id = Str("gsw-302")

\* the positions of entries whose lower-cased name is that of entry e
SameName(entries, e) == {j \in 1..Len(entries) : lower(entries[j].name) = lower(e.name)}

\* C28: after the dedup pass every group of entries sharing a lower-cased
\* name has one kept entry; its hex is non-empty exactly when some entry of
\* the group has a non-empty hex; it is the first entry of the group with a
\* non-empty hex when there is one, else the first entry of the group; and
\* the count of duplicates removed is the input length minus the output
\* length.
C28_KeptEntryOfEachGroup ==
    pc \in {"validate", "done"} /\ paints # <<>> =>
        /\ duplicates_removed = Len(paints) - Len(deduplicated_paints)
        /\ \A i \in 1..Len(paints) :
               LET group == SameName(paints, paints[i])
                   hexed == {j \in group : paints[j].hex # <<>>}
                   kept == SameName(deduplicated_paints, paints[i])
               IN  /\ Cardinality(kept) = 1
                   /\ \A k \in kept :
                          /\ deduplicated_paints[k].hex # <<>> <=> hexed # {}
                          /\ hexed # {} =>
                                 \E j \in hexed :
                                     /\ \A h \in hexed : j <= h
                                     /\ deduplicated_paints[k] = paints[j]
                          /\ hexed = {} =>
                                 \E j \in group :
                                     /\ \A h \in group : j <= h
                                     /\ deduplicated_paints[k] = paints[j]

\* the pass took the second entry of one group for its hex, kept the first
\* entry of a group without any hex, and counted the one removed
C28_Witness ==
    /\ pc = "validate"
    /\ Len(paints) = 3 /\ Len(deduplicated_paints) = 2
    /\ duplicates_removed = 1
    /\ \E i \in 1..2 :
           /\ lower(paints[i].name) = lower(paints[i + 1].name)
           /\ paints[i].hex = <<>> /\ paints[i + 1].hex # <<>>
           /\ paints[i + 1] \in Range(deduplicated_paints)
    /\ \E e \in Range(deduplicated_paints) : e.hex = <<>>

\* C29: when accepted points have exactly equal scores the primary sampler
\* returns the earlier one in layout order: the point returned has a score
\* strictly greater than every accepted point before it and at least that
\* of every accepted point after it.
C29_EarlierPointWinsTie ==
    \A f \in {"sample_color_from_image", "kimera_sample_color_from_image"} :
        (Returned(f) /\ AcceptedPoints(f, arg) # {}) =>
            \E i \in AcceptedPoints(f, arg) :
                /\ out[1] = FormatHex(arg.regions[i])
                /\ \A j \in AcceptedPoints(f, arg) :
                       /\ j < i => ~ScoreAtMost(arg.regions[i], arg.regions[j])
                       /\ j > i => ScoreAtMost(arg.regions[j], arg.regions[i])

\* two accepted points of different colours and equal scores, which no
\* other point beats: the earlier one is returned.  The two colours are
\* permutations of the same channels, so max_c, min_c and the sum are the
\* same and the floating-point scores of the code are equal as well.
C29_Witness ==
    /\ Returned("sample_color_from_image")
    /\ arg.regions[2] = <<30, 200, 30>> /\ arg.regions[3] = <<200, 30, 30>>
    /\ arg.regions[1] = <<128, 128, 128>>
    /\ ScoreAtMost(arg.regions[2], arg.regions[3])
    /\ ScoreAtMost(arg.regions[3], arg.regions[2])
    /\ out[1] = Str("#1EC81E")

(***************************************************************************)
(* Green Stuff World: the page loop of scrape_range on a shop whose        *)
(* category pages link to one another.                                     *)
(***************************************************************************)
MaxPages == 3
MaxFetches == 4

\* the URL of the i-th category page; the first is the range's url
PageUrl(i) == Str("https://www.greenstuffworld.com/en/paints?page=") \o <<Str("123456789")[i]>>

PageUrls == { PageUrl(i) : i \in 1..MaxPages }

\* what extract_products_from_page finds on a page: nothing, or a paint and
\* a product that is not a paint
PageProducts ==
    { <<>>,
      << [id |-> Str("104"), title |-> Str("Acrylic Color ABYSS BLUE"), sku |-> GoodSku,
          url |-> GoodUrl, img |-> NoImage],
         [id |-> Str("107"), title |-> Str("Acrylic Paint Set"), sku |-> GoodSku,
          url |-> GoodUrl, img |-> NoImage] >> }

\* the shops: every page has its products and its next-page link, None when
\* get_next_page_url finds no link
Sites == [PageUrls -> [products : PageProducts, next : PageUrls \cup {None}]]

\* scrape_range is called with a known range key on a shop and enters the
\* page loop at the range's url
WalkCall(rk, shop) ==
    /\ pc = "idle" /\ npc = "idle" /\ vpc = "idle" /\ fn = "" /\ mpc = "idle"
    /\ rk \in DOMAIN GSW_RANGES
    /\ range_key' = rk /\ sample_colors' = FALSE /\ max_workers' = 1
    /\ pc' = "collect"
    /\ fetched' = FALSE
    /\ site' = shop
    /\ current_url' = PageUrl(1)
    /\ fetch_log' = <<>>
    /\ UNCHANGED <<all_products, next_task, running, paints, deduplicated_paints,
                   duplicates_removed, valid_paints, rejected>>
    /\ UNCHANGED <<normVars, vendorVars, callVars, mpc, main_range, files>>

\* one turn of the page loop: fetch_page, which may raise, the products of
\* the page, and the next-page link; the loop goes on only when the page
\* has products and links to a URL other than its own
FetchPage ==
    /\ pc = "collect" /\ site # <<>>
    /\ current_url # None
    /\ Len(fetch_log) < MaxFetches
    /\ fetch_log' = Append(fetch_log, current_url)
    /\ fetched' = TRUE
    /\ \E ok \in BOOLEAN :
           LET soup == site[current_url]
               products == IF ok THEN soup.products ELSE <<>>
               next_url == soup.next
               again == /\ products # <<>>
                        /\ Truthy(next_url) /\ next_url # current_url
           IN  /\ all_products' = all_products \o SelectSeq(products, is_paint_product)
               /\ current_url' = IF again THEN next_url ELSE current_url
               /\ pc' = IF again THEN "collect"
                        ELSE IF all_products' = <<>> THEN "done" ELSE "process"
    /\ next_task' = IF pc' = "process" THEN 1 ELSE next_task
    /\ UNCHANGED <<range_key, sample_colors, max_workers, running, paints,
                   deduplicated_paints, duplicates_removed, valid_paints, rejected, site>>
    /\ UNCHANGED <<normVars, vendorVars, callVars, mpc, main_range, files>>

NextPages ==
    \/ \E shop \in Sites : WalkCall("acrylic", shop)
    \/ FetchPage

SpecPages == Init /\ [][NextPages]_vars

\* C30: the page loop of scrape_range visits each page URL at most once,
\* also when the next-page links form a cycle of two or more pages, and so
\* ends after at most as many fetches as there are pages.
C30_EachPageFetchedOnce ==
    /\ \A i, j \in 1..Len(fetch_log) : fetch_log[i] = fetch_log[j] => i = j
    /\ Len(fetch_log) <= MaxPages

====
